---- MODULE Spec2Model ----
(***************************************************************************)
(* AiKv cluster command handlers (src/src/cluster/commands.rs) over one    *)
(* ClusterState shared by several ClusterCommands handlers.                *)
(*                                                                         *)
(* Byte strings are sequences of one-character strings; Option<T> is the   *)
(* empty sequence (None) or a one-element sequence (Some(x)); a Vec is a   *)
(* function on 0..len-1; a HashMap is a function on its key set.           *)
(* The 16384-entry slot vector is scaled to TOTAL_SLOTS entries.           *)
(***************************************************************************)
EXTENDS Integers, Sequences, FiniteSets, TLC

(***************************************************************************)
(* Bounds of the model                                                     *)
(***************************************************************************)
\* length of the slot vector (16384 in the source, scaled)
TOTAL_SLOTS == 2
\* the configuration epoch is explored up to this value
MaxEpoch == 3
\* longest slot list given to ADDSLOTS / DELSLOTS
MaxSlotArgs == 2
\* the longest list the model pushes to
MaxItems == 2

(***************************************************************************)
(* Program constants                                                       *)
(***************************************************************************)
U16_MAX == 65535
U64_HEX_DIGITS == 16
U16_DEC_DIGITS == 5
DEFAULT_PORT == 6379
CLUSTER_PORT_OFFSET == 10000
NODE_ID_WIDTH == 40

(***************************************************************************)
(* Option, HashMap and string helpers                                      *)
(***************************************************************************)
None == <<>>
Some(x) == <<x>>
is_some(o) == o # None
unwrap(o) == o[1]

contains_key(m, k) == k \in DOMAIN m
insert(m, k, v) == [x \in (DOMAIN m) \cup {k} |-> IF x = k THEN v ELSE m[x]]
remove(m, k) == [x \in (DOMAIN m) \ {k} |-> m[x]]
EmptyMap == [x \in {} |-> 0]

DecChars == <<"0", "1", "2", "3", "4", "5", "6", "7", "8", "9">>
LowerHexChars == DecChars \o <<"a", "b", "c", "d", "e", "f">>
UpperHexChars == DecChars \o <<"A", "B", "C", "D", "E", "F">>

DecCharSet == {DecChars[i] : i \in 1..10}
HexCharSet == {LowerHexChars[i] : i \in 1..16} \cup {UpperHexChars[i] : i \in 1..16}
HexValTable == [c \in HexCharSet |->
                   (CHOOSE i \in 1..16 : LowerHexChars[i] = c \/ UpperHexChars[i] = c) - 1]
IsDecChar(c) == c \in DecCharSet
DecVal(c) == HexValTable[c]
IsHexChar(c) == c \in HexCharSet
HexVal(c) == HexValTable[c]

\* the index of the first character of s at or after i that is not '0' (Len(s) + 1 if none)
SkipZeros(s, i) ==
    LET nz == {j \in i..Len(s) : s[j] # "0"}
    IN IF nz = {} THEN Len(s) + 1 ELSE CHOOSE j \in nz : \A k \in nz : j <= k

\* the value of the digit string s[i..] in the given radix (digits already validated)
RECURSIVE DigitsValue(_, _, _, _)
DigitsValue(s, i, radix, acc) ==
    IF i > Len(s) THEN acc
    ELSE DigitsValue(s, i + 1, radix, acc * radix + HexVal(s[i]))

\* an integer parse of the text s: an optional '+', then one or more digits of the radix;
\* more than max_digits significant digits, or a value above max, overflow the type
parse_digits(s, radix, max_digits, max) ==
    LET start == IF s # <<>> /\ s[1] = "+" THEN 2 ELSE 1
        sig == SkipZeros(s, start)
    IN IF start > Len(s) THEN None
       ELSE IF \E i \in start..Len(s) : IF radix = 10 THEN ~IsDecChar(s[i]) ELSE ~IsHexChar(s[i])
       THEN None
       ELSE IF Len(s) - sig + 1 > max_digits THEN None
       ELSE IF max >= 0 /\ DigitsValue(s, sig, radix, 0) > max THEN None
       ELSE Some(DigitsValue(s, sig, radix, 0))

\* str::parse::<u16>()
parse_u16(s) == parse_digits(s, 10, U16_DEC_DIGITS, U16_MAX)

\* u64::from_str_radix(s, 16): digits of either case; a value of more than 16 significant
\* hex digits does not fit u64 (the model's ids are far below that)
from_str_radix16(s) == parse_digits(s, 16, U64_HEX_DIGITS, -1)

\* format!("{}", n) of an unsigned integer
RECURSIVE format_dec(_)
format_dec(n) == IF n < 10 THEN <<DecChars[n + 1]>>
                 ELSE format_dec(n \div 10) \o <<DecChars[(n % 10) + 1]>>

RECURSIVE format_hex(_)
format_hex(n) == IF n < 16 THEN <<LowerHexChars[n + 1]>>
                 ELSE format_hex(n \div 16) \o <<LowerHexChars[(n % 16) + 1]>>

\* format!("{:040x}", id): lower-case hex, zero-padded on the left to 40 characters
format_040x(id) ==
    LET h == format_hex(id)
    IN IF Len(h) >= NODE_ID_WIDTH THEN h
       ELSE [i \in 1..(NODE_ID_WIDTH - Len(h)) |-> "0"] \o h

\* the part of s after its last ':' (the whole of s when it has none):
\* addr.split(':').next_back()
RECURSIVE after_last_colon(_)
after_last_colon(s) ==
    IF \E i \in 1..Len(s) : s[i] = ":"
    THEN after_last_colon(SubSeq(s, (CHOOSE i \in 1..Len(s) : s[i] = ":") + 1, Len(s)))
    ELSE s

(***************************************************************************)
(* State                                                                   *)
(***************************************************************************)
VARIABLES
    state,            \* Arc<RwLock<ClusterState>>: [data: ClusterState, poisoned: BOOLEAN]
    mutations,        \* history: number of cluster mutations that returned OK
    last_migration,   \* history: per slot, the last successful command on its migration state
    writer,           \* the handler holding the write guard of the lock, if any
    task,             \* concurrent handlers: where each is in its ADDSLOTS call
    script_cache,     \* Arc<RwLock<HashMap<String, CachedScript>>>: digest -> source text
    storage,          \* StorageAdapter: per database, key -> value
    loaded,           \* history: per source text, whether it was loaded since the last flush
    evaluated,        \* history: the known source texts that EVAL has run since the last flush
    engine            \* StorageEngine: the typed values of the selected database, by key

vars == <<state, mutations, last_migration, writer, task, script_cache, storage, loaded, evaluated,
         engine>>

\* the node ids of the ClusterCommands handlers sharing the state (self.node_id)
HandlerIds == {None, Some(1), Some(2)}

(***************************************************************************)
(* Results: Ok(RespValue) or Err(AikvError); a panic ends the calling task  *)
(***************************************************************************)
Ok == [kind |-> "Ok", msg |-> "OK", n |-> -1, s |-> <<>>]
Err(kind, msg) == [kind |-> kind, msg |-> msg, n |-> -1, s |-> <<>>]
ErrSlot(kind, msg, slot) == [kind |-> kind, msg |-> msg, n |-> slot, s |-> <<>>]
ErrStr(kind, msg, str) == [kind |-> kind, msg |-> msg, n |-> -1, s |-> str]
Panic == [kind |-> "Panic", msg |-> "panic", n |-> -1, s |-> <<>>]
\* RespValue::Error(text)
RespError(text) == [kind |-> "Error", msg |-> "error", n |-> -1, s |-> text]
\* RespValue::bulk_string, RespValue::Integer, RespValue::Array: the payload is in s or n
BulkString(payload) == [kind |-> "Ok", msg |-> "bulk", n |-> -1, s |-> payload]
Integer(i) == [kind |-> "Ok", msg |-> "integer", n |-> i, s |-> <<>>]
Array(items) == [kind |-> "Ok", msg |-> "array", n |-> -1, s |-> items]

IsErr(r) == r.kind \in {"WrongArgCount", "InvalidCommand", "InvalidArgument"}

\* what a handler returns: the lock after the call and the result
Out(lk, r) == [lk |-> lk, result |-> r]

(***************************************************************************)
(* NodeInfo and ClusterState                                               *)
(***************************************************************************)
\* u16 addition: panics under overflow checks, wraps otherwise
u16_add(a, b) == [overflow |-> a + b > U16_MAX, value |-> (a + b) % (U16_MAX + 1)]

\* overflow_checks: whether the build panics on integer overflow (it wraps otherwise)
NodeInfo_new(id, addr, overflow_checks) ==
    LET port == parse_u16(after_last_colon(addr))
        sum == u16_add(IF is_some(port) THEN unwrap(port) ELSE DEFAULT_PORT,
                       CLUSTER_PORT_OFFSET)
    IN [panic |-> sum.overflow /\ overflow_checks,
        info |-> [id |-> id, addr |-> addr, cluster_port |-> sum.value,
                  is_master |-> TRUE, is_connected |-> TRUE]]

ClusterState_new ==
    [nodes |-> EmptyMap,
     slot_assignments |-> [i \in 0..(TOTAL_SLOTS - 1) |-> None],
     slot_states |-> EmptyMap,
     migration_targets |-> EmptyMap,
     config_epoch |-> 0]

LocalAddr == <<"1", "2", "7", ".", "0", ".", "0", ".", "1", ":">> \o format_dec(DEFAULT_PORT)

\* ClusterCommands::with_node_id(node_id): a fresh state with self registered
with_node_id(node_id) ==
    [data |-> [ClusterState_new EXCEPT
                  !.nodes = insert(@, node_id, NodeInfo_new(node_id, LocalAddr, FALSE).info)],
     poisoned |-> FALSE]

(***************************************************************************)
(* A handler first checks and parses its arguments without the lock, then  *)
(* takes the lock on the shared state for the rest of the call. Cmd is     *)
(* what the first part hands to the second: the early result if the        *)
(* arguments were rejected, the parsed arguments otherwise.                *)
(***************************************************************************)
Cmd(op) ==
    [op |-> op, early |-> None, slots |-> <<>>, slot |-> -1, node_id |-> 0,
     node_id_str |-> <<>>, addr |-> <<>>, cluster_port |-> 0, explicit_port |-> FALSE,
     port_overflow |-> FALSE, key |-> <<>>]
Early(op, r) == [Cmd(op) EXCEPT !.early = Some(r)]

(***************************************************************************)
(* CLUSTER MEET ip port [cluster-port]                                     *)
(***************************************************************************)
\* the addresses CLUSTER MEET is given in this model, in a fixed order
MeetIp == <<"h">>
MeetPorts == <<6380, 60000>>
MeetAddr(ip, port) == ip \o <<":">> \o format_dec(port)
MeetAddrs == [i \in 1..Len(MeetPorts) |-> MeetAddr(MeetIp, MeetPorts[i])]

\* DefaultHasher over the address string: a 64-bit value fixed by the address. The
\* model numbers the addresses it uses injectively, above the handlers' own ids.
HashBase == 2
hash_addr(addr) ==
    IF \E i \in 1..Len(MeetAddrs) : MeetAddrs[i] = addr
    THEN HashBase + (CHOOSE i \in 1..Len(MeetAddrs) : MeetAddrs[i] = addr)
    ELSE HashBase + Len(MeetAddrs) + 1

meet_args(args) ==
    IF Len(args) < 2 THEN Early("MEET", Err("WrongArgCount", "CLUSTER MEET"))
    ELSE
    LET ip == args[1]
        port == parse_u16(args[2])
    IN IF ~is_some(port) THEN Early("MEET", Err("InvalidArgument", "Invalid port number"))
       ELSE
       LET given == IF Len(args) > 2 THEN parse_u16(args[3]) ELSE None
           sum == u16_add(unwrap(port), CLUSTER_PORT_OFFSET)
           addr == MeetAddr(ip, unwrap(port))
       IN IF Len(args) > 2 /\ ~is_some(given)
          THEN Early("MEET", Err("InvalidArgument", "Invalid cluster port number"))
          ELSE [Cmd("MEET") EXCEPT
                  !.cluster_port = IF Len(args) > 2 THEN unwrap(given) ELSE sum.value,
                  !.explicit_port = Len(args) > 2,
                  !.port_overflow = Len(args) <= 2 /\ sum.overflow,   \* port + 10000
                  !.addr = addr,
                  !.node_id = hash_addr(addr)]

meet_locked(cmd, lk, overflow_checks) ==
    IF cmd.port_overflow /\ overflow_checks THEN Out(lk, Panic)   \* before the lock is taken
    ELSE IF lk.poisoned THEN Out(lk, Panic)                       \* self.state.write().unwrap()
    ELSE
    LET made == NodeInfo_new(cmd.node_id, cmd.addr, overflow_checks)
    IN IF made.panic THEN Out([lk EXCEPT !.poisoned = TRUE], Panic)   \* panic under the guard
       ELSE Out([lk EXCEPT
                   !.data.nodes =
                       insert(@, cmd.node_id,
                              [made.info EXCEPT !.cluster_port = cmd.cluster_port]),
                   !.data.config_epoch = @ + 1],
                Ok)

(***************************************************************************)
(* CLUSTER FORGET node-id                                                  *)
(***************************************************************************)
\* forget without the check against the handler's own id
forget_args_no_self_check(self_id, args) ==
    IF Len(args) # 1 THEN Early("FORGET", Err("WrongArgCount", "CLUSTER FORGET"))
    ELSE
    LET parsed == from_str_radix16(args[1])
    IN IF ~is_some(parsed) THEN Early("FORGET", Err("InvalidArgument", "Invalid node ID"))
       ELSE [Cmd("FORGET") EXCEPT !.node_id = unwrap(parsed), !.node_id_str = args[1]]

forget_args(self_id, args) ==
    IF Len(args) # 1 THEN Early("FORGET", Err("WrongArgCount", "CLUSTER FORGET"))
    ELSE
    LET parsed == from_str_radix16(args[1])
    IN IF ~is_some(parsed) THEN Early("FORGET", Err("InvalidArgument", "Invalid node ID"))
       ELSE IF parsed = self_id
       THEN Early("FORGET",
                  Err("InvalidArgument", "I tried hard but I can't forget myself"))
       ELSE [Cmd("FORGET") EXCEPT !.node_id = unwrap(parsed), !.node_id_str = args[1]]

\* forget that removes the node and leaves its slots assigned to it
forget_locked_keeps_slots(cmd, lk) ==
    IF lk.poisoned THEN Out(lk, Panic)
    ELSE IF ~contains_key(lk.data.nodes, cmd.node_id)
    THEN Out(lk, ErrStr("InvalidArgument", "Unknown node {}", cmd.node_id_str))
    ELSE Out([lk EXCEPT
                !.data.nodes = remove(@, cmd.node_id),
                !.data.config_epoch = @ + 1],
             Ok)

forget_locked(cmd, lk) ==
    IF lk.poisoned THEN Out(lk, Panic)
    ELSE IF ~contains_key(lk.data.nodes, cmd.node_id)
    THEN Out(lk, ErrStr("InvalidArgument", "Unknown node {}", cmd.node_id_str))
    ELSE Out([lk EXCEPT
                !.data.nodes = remove(@, cmd.node_id),
                !.data.slot_assignments =
                    [i \in DOMAIN @ |-> IF @[i] = Some(cmd.node_id) THEN None ELSE @[i]],
                !.data.config_epoch = @ + 1],
             Ok)

(***************************************************************************)
(* CLUSTER ADDSLOTS / DELSLOTS slot [slot ...]                             *)
(***************************************************************************)
\* "Parse and validate all slots first": the slots in argument order, or the error of
\* the first argument that does not parse or is out of range
RECURSIVE parse_slots(_, _, _)
parse_slots(op, args, acc) ==
    IF args = <<>> THEN [Cmd(op) EXCEPT !.slots = acc]
    ELSE LET slot == parse_u16(Head(args))
         IN IF ~is_some(slot)
            THEN Early(op, Err("InvalidArgument", "Invalid slot number"))
            ELSE IF unwrap(slot) >= TOTAL_SLOTS
            THEN Early(op, ErrSlot("InvalidArgument", "Invalid slot {} (out of range 0-{})",
                                   unwrap(slot)))
            ELSE parse_slots(op, Tail(args), Append(acc, unwrap(slot)))

\* the first slot of the list that is assigned to a node other than my_node_id
RECURSIVE first_busy(_, _, _)
first_busy(slots, assignments, my_node_id) ==
    IF slots = <<>> THEN None
    ELSE IF is_some(assignments[Head(slots)]) /\ unwrap(assignments[Head(slots)]) # my_node_id
    THEN Some(Head(slots))
    ELSE first_busy(Tail(slots), assignments, my_node_id)

RECURSIVE assign_all(_, _, _)
assign_all(slots, assignments, owner) ==
    IF slots = <<>> THEN assignments
    ELSE assign_all(Tail(slots), [assignments EXCEPT ![Head(slots)] = owner], owner)

RECURSIVE remove_all(_, _)
remove_all(slots, m) ==
    IF slots = <<>> THEN m ELSE remove_all(Tail(slots), remove(m, Head(slots)))

addslots_args(self_id, args) ==
    IF args = <<>> THEN Early("ADDSLOTS", Err("WrongArgCount", "CLUSTER ADDSLOTS"))
    ELSE IF ~is_some(self_id)
    THEN Early("ADDSLOTS", Err("InvalidCommand", "Node ID not set for this cluster node"))
    ELSE parse_slots("ADDSLOTS", args, <<>>)

\* addslots that checks and assigns slot by slot: the slots before the busy one are
\* assigned when the error is returned
addslots_locked_slot_by_slot(self_id, cmd, lk) ==
    IF lk.poisoned THEN Out(lk, Panic)
    ELSE
    LET my_node_id == unwrap(self_id)
        busy == first_busy(cmd.slots, lk.data.slot_assignments, my_node_id)
        at == CHOOSE i \in 1..Len(cmd.slots) :
                  cmd.slots[i] = unwrap(busy) /\ \A j \in 1..(i - 1) : cmd.slots[j] # unwrap(busy)
    IN IF is_some(busy)
       THEN Out([lk EXCEPT
                   !.data.slot_assignments =
                       assign_all(SubSeq(cmd.slots, 1, at - 1), @, Some(my_node_id))],
                ErrSlot("InvalidArgument", "Slot {} is already busy", unwrap(busy)))
       ELSE Out([lk EXCEPT
                   !.data.slot_assignments = assign_all(cmd.slots, @, Some(my_node_id)),
                   !.data.config_epoch = @ + 1],
                Ok)

addslots_locked(self_id, cmd, lk) ==
    IF lk.poisoned THEN Out(lk, Panic)
    ELSE
    LET my_node_id == unwrap(self_id)
        busy == first_busy(cmd.slots, lk.data.slot_assignments, my_node_id)
    IN IF is_some(busy)
       THEN Out(lk, ErrSlot("InvalidArgument", "Slot {} is already busy", unwrap(busy)))
       ELSE Out([lk EXCEPT
                   !.data.slot_assignments = assign_all(cmd.slots, @, Some(my_node_id)),
                   !.data.config_epoch = @ + 1],
                Ok)

\* the first slot of the list that is assigned, while self is known, to another node
RECURSIVE first_not_owned(_, _, _)
first_not_owned(slots, assignments, self_id) ==
    IF slots = <<>> THEN None
    ELSE IF is_some(assignments[Head(slots)]) /\ is_some(self_id)
            /\ assignments[Head(slots)] # self_id
    THEN Some(Head(slots))
    ELSE first_not_owned(Tail(slots), assignments, self_id)

delslots_args(args) ==
    IF args = <<>> THEN Early("DELSLOTS", Err("WrongArgCount", "CLUSTER DELSLOTS"))
    ELSE parse_slots("DELSLOTS", args, <<>>)

\* delslots that unassigns the slots and leaves their migration state
delslots_locked_keeps_migration(self_id, cmd, lk) ==
    IF lk.poisoned THEN Out(lk, Panic)
    ELSE
    LET other == first_not_owned(cmd.slots, lk.data.slot_assignments, self_id)
    IN IF is_some(other)
       THEN Out(lk, ErrSlot("InvalidArgument", "Slot {} is not owned by this node",
                            unwrap(other)))
       ELSE Out([lk EXCEPT
                   !.data.slot_assignments = assign_all(cmd.slots, @, None),
                   !.data.config_epoch = @ + 1],
                Ok)

delslots_locked(self_id, cmd, lk) ==
    IF lk.poisoned THEN Out(lk, Panic)
    ELSE
    LET other == first_not_owned(cmd.slots, lk.data.slot_assignments, self_id)
    IN IF is_some(other)
       THEN Out(lk, ErrSlot("InvalidArgument", "Slot {} is not owned by this node",
                            unwrap(other)))
       ELSE Out([lk EXCEPT
                   !.data.slot_assignments = assign_all(cmd.slots, @, None),
                   !.data.slot_states = remove_all(cmd.slots, @),
                   !.data.migration_targets = remove_all(cmd.slots, @),
                   !.data.config_epoch = @ + 1],
                Ok)

(***************************************************************************)
(* CLUSTER SETSLOT slot IMPORTING|MIGRATING|NODE|STABLE [node-id]          *)
(***************************************************************************)
\* String::to_uppercase, on ASCII text
LowerLetters == <<"a", "b", "c", "d", "e", "f", "g", "h", "i", "j", "k", "l", "m",
                  "n", "o", "p", "q", "r", "s", "t", "u", "v", "w", "x", "y", "z">>
UpperLetters == <<"A", "B", "C", "D", "E", "F", "G", "H", "I", "J", "K", "L", "M",
                  "N", "O", "P", "Q", "R", "S", "T", "U", "V", "W", "X", "Y", "Z">>
UpperTable == [c \in {LowerLetters[i] : i \in 1..Len(LowerLetters)} |->
                  UpperLetters[CHOOSE i \in 1..Len(LowerLetters) : LowerLetters[i] = c]]
upper_char(c) == IF c \in DOMAIN UpperTable THEN UpperTable[c] ELSE c
to_uppercase(s) == [i \in 1..Len(s) |-> upper_char(s[i])]

KW_IMPORTING == <<"I", "M", "P", "O", "R", "T", "I", "N", "G">>
KW_MIGRATING == <<"M", "I", "G", "R", "A", "T", "I", "N", "G">>
KW_NODE == <<"N", "O", "D", "E">>
KW_STABLE == <<"S", "T", "A", "B", "L", "E">>

\* the IMPORTING, MIGRATING and NODE arms up to the lock: arity, then the node id
setslot_node_id(op, wrong_arg, args, slot) ==
    IF Len(args) < 3 THEN Early(op, Err("WrongArgCount", wrong_arg))
    ELSE
    LET parsed == from_str_radix16(args[3])
    IN IF ~is_some(parsed) THEN Early(op, Err("InvalidArgument", "Invalid node ID"))
       ELSE [Cmd(op) EXCEPT !.slot = slot, !.node_id = unwrap(parsed), !.node_id_str = args[3]]

setslot_args(args) ==
    IF Len(args) < 2 THEN Early("SETSLOT", Err("WrongArgCount", "CLUSTER SETSLOT"))
    ELSE
    LET parsed == parse_u16(args[1])
    IN IF ~is_some(parsed)
       THEN Early("SETSLOT", Err("InvalidArgument", "Invalid slot number"))
       ELSE
       LET slot == unwrap(parsed)
           subcommand == to_uppercase(args[2])
       IN IF slot >= TOTAL_SLOTS
          THEN Early("SETSLOT",
                     ErrSlot("InvalidArgument", "Invalid slot {} (out of range 0-{})", slot))
          ELSE CASE subcommand = KW_IMPORTING ->
                      setslot_node_id("IMPORTING", "CLUSTER SETSLOT IMPORTING", args, slot)
                 [] subcommand = KW_MIGRATING ->
                      setslot_node_id("MIGRATING", "CLUSTER SETSLOT MIGRATING", args, slot)
                 [] subcommand = KW_NODE ->
                      setslot_node_id("NODE", "CLUSTER SETSLOT NODE", args, slot)
                 [] subcommand = KW_STABLE -> [Cmd("STABLE") EXCEPT !.slot = slot]
                 [] OTHER -> Early("SETSLOT", ErrStr("InvalidArgument",
                                                     "Unknown SETSLOT subcommand: {}", subcommand))

\* a migration state recorded without its node id
setslot_migration_locked_state_only(slot_state, cmd, lk) ==
    IF lk.poisoned THEN Out(lk, Panic)
    ELSE Out([lk EXCEPT
                !.data.slot_states = insert(@, cmd.slot, slot_state),
                !.data.config_epoch = @ + 1],
             Ok)

\* SlotState::Importing or SlotState::Migrating, with the node id given
setslot_migration_locked(slot_state, cmd, lk) ==
    IF lk.poisoned THEN Out(lk, Panic)
    ELSE Out([lk EXCEPT
                !.data.slot_states = insert(@, cmd.slot, slot_state),
                !.data.migration_targets = insert(@, cmd.slot, cmd.node_id),
                !.data.config_epoch = @ + 1],
             Ok)

setslot_node_locked(self_id, cmd, lk) ==
    IF lk.poisoned THEN Out(lk, Panic)
    ELSE IF ~contains_key(lk.data.nodes, cmd.node_id) /\ self_id # Some(cmd.node_id)
    THEN Out(lk, ErrStr("InvalidArgument", "Unknown node {}", cmd.node_id_str))
    ELSE Out([lk EXCEPT
                !.data.slot_assignments[cmd.slot] = Some(cmd.node_id),
                !.data.slot_states = remove(@, cmd.slot),
                !.data.migration_targets = remove(@, cmd.slot),
                !.data.config_epoch = @ + 1],
             Ok)

\* SETSLOT STABLE that does not bump the epoch
setslot_stable_locked_no_epoch(cmd, lk) ==
    IF lk.poisoned THEN Out(lk, Panic)
    ELSE Out([lk EXCEPT
                !.data.slot_states = remove(@, cmd.slot),
                !.data.migration_targets = remove(@, cmd.slot)],
             Ok)

setslot_stable_locked(cmd, lk) ==
    IF lk.poisoned THEN Out(lk, Panic)
    ELSE Out([lk EXCEPT
                !.data.slot_states = remove(@, cmd.slot),
                !.data.migration_targets = remove(@, cmd.slot),
                !.data.config_epoch = @ + 1],
             Ok)

(***************************************************************************)
(* The slot hasher, SlotRouter::key_to_slot, and CLUSTER KEYSLOT key       *)
(***************************************************************************)
\* the byte of a character of a key (ASCII)
byte_of(ch) ==
    CASE \E i \in 1..Len(LowerLetters) : LowerLetters[i] = ch ->
             96 + (CHOOSE i \in 1..Len(LowerLetters) : LowerLetters[i] = ch)
      [] \E i \in 1..Len(UpperLetters) : UpperLetters[i] = ch ->
             64 + (CHOOSE i \in 1..Len(UpperLetters) : UpperLetters[i] = ch)
      [] \E i \in 1..Len(DecChars) : DecChars[i] = ch ->
             47 + (CHOOSE i \in 1..Len(DecChars) : DecChars[i] = ch)
      [] ch = "{" -> 123
      [] ch = "}" -> 125
      [] OTHER -> 46

\* bitwise exclusive or of two naturals
RECURSIVE xor(_, _)
xor(a, b) ==
    IF a = 0 THEN b
    ELSE IF b = 0 THEN a
    ELSE ((a + b) % 2) + 2 * xor(a \div 2, b \div 2)

\* CRC16-CCITT-FALSE: polynomial 0x1021, initial value 0xFFFF, bits taken high to low
CRC16_POLY == 4129
CRC16_INIT == 65535
CRC16_TOP == 32768
CRC16_MOD == 65536
\* the register after n more shifts, the polynomial folded in when the top bit falls out
RECURSIVE crc16_bits(_, _)
crc16_bits(crc, n) ==
    IF n = 0 THEN crc
    ELSE crc16_bits(IF crc >= CRC16_TOP THEN xor((crc * 2) % CRC16_MOD, CRC16_POLY)
                    ELSE crc * 2,
                    n - 1)
\* the register st.crc after the bytes st.rest
RECURSIVE crc16_from(_)
crc16_from(st) ==
    IF st.rest = <<>> THEN st.crc
    ELSE crc16_from([crc |-> crc16_bits(xor(st.crc, byte_of(Head(st.rest)) * 256), 8),
                     rest |-> Tail(st.rest)])
crc16(bytes) == crc16_from([crc |-> CRC16_INIT, rest |-> bytes])

\* the part of the key that is hashed: the bytes strictly between the first '{' and the
\* first '}' after it when there is at least one, the whole key otherwise
hash_tag(key) ==
    LET opens == {i \in 1..Len(key) : key[i] = "{"}
        open == CHOOSE i \in opens : \A j \in opens : i <= j
        closes == {i \in 1..Len(key) : key[i] = "}" /\ i > open}
        close == CHOOSE i \in closes : \A j \in closes : i <= j
    IN IF opens = {} THEN key
       ELSE IF closes = {} THEN key
       ELSE IF close = open + 1 THEN key
       ELSE SubSeq(key, open + 1, close - 1)

\* the hash of the whole key, whatever braces it has
key_to_slot_whole_key(key) == crc16(key) % TOTAL_SLOTS

\* the slot space is 0..TOTAL_SLOTS-1, as for the slot vector
key_to_slot(key) == crc16(hash_tag(key)) % TOTAL_SLOTS

\* KEYSLOT takes no lock
keyslot_args(args) ==
    IF Len(args) # 1 THEN Early("KEYSLOT", Err("WrongArgCount", "CLUSTER KEYSLOT"))
    ELSE [Early("KEYSLOT", Integer(key_to_slot(args[1]))) EXCEPT !.key = args[1]]

(***************************************************************************)
(* Redirection: moved_error, ask_error and check_redirect                  *)
(***************************************************************************)
\* format!("MOVED {} {}", slot, addr) and format!("ASK {} {}", slot, addr)
moved_error(slot, addr) ==
    RespError(<<"M", "O", "V", "E", "D", " ">> \o format_dec(slot) \o <<" ">> \o addr)
ask_error(slot, addr) ==
    RespError(<<"A", "S", "K", " ">> \o format_dec(slot) \o <<" ">> \o addr)

\* a call of check_redirect(key, local_slots) once line 875 has computed the slot of the
\* key. cluster_feature is whether the build has the feature "cluster"; leader_address
\* is what the handler's own SlotRouter answers for the slot in such a build (the
\* handler never hands the cluster state to its router); key_exists is whether the
\* local store holds the key, which the function is not told.
RedirectCall(self_id, key, cluster_feature, leader_address, key_exists) ==
    [self_id |-> self_id, key |-> key, slot |-> key_to_slot(key),
     cluster_feature |-> cluster_feature, leader_address |-> leader_address,
     key_exists |-> key_exists]

\* the rest of check_redirect: local_slots is not read
check_redirect(c, local_slots) ==
    IF c.cluster_feature /\ is_some(c.leader_address)
    THEN Some(<<c.slot, unwrap(c.leader_address)>>)
    ELSE None

(***************************************************************************)
(* CLUSTER INFO: the text, as its lines "name:value" in order              *)
(***************************************************************************)
assigned_slots_count(d) ==
    Cardinality({s \in DOMAIN d.slot_assignments : is_some(d.slot_assignments[s])})
all_slots_assigned(d) == assigned_slots_count(d) = TOTAL_SLOTS

Line(name, value) == [name |-> name, value |-> value]
max(a, b) == IF a >= b THEN a ELSE b

\* INFO that counts itself as a change of the configuration
info_locked_bumps_epoch(lk) ==
    IF lk.poisoned THEN Out(lk, Panic)
    ELSE Out([lk EXCEPT !.data.config_epoch = @ + 1], Ok)

info_locked(lk) ==
    IF lk.poisoned THEN Out(lk, Panic)                  \* self.state.read().unwrap()
    ELSE
    LET d == lk.data
        assigned_slots == assigned_slots_count(d)
        cluster_state == IF all_slots_assigned(d) /\ DOMAIN d.nodes # {}
                         THEN <<"o", "k">> ELSE <<"f", "a", "i", "l">>
        known_nodes == Cardinality(DOMAIN d.nodes)
        cluster_size ==
            Cardinality({unwrap(d.slot_assignments[s]) :
                            s \in {x \in DOMAIN d.slot_assignments : is_some(d.slot_assignments[x])}})
    IN Out(lk, BulkString(
           <<Line("cluster_state", cluster_state),
             Line("cluster_slots_assigned", format_dec(assigned_slots)),
             Line("cluster_slots_ok", format_dec(assigned_slots)),
             Line("cluster_slots_pfail", format_dec(0)),
             Line("cluster_slots_fail", format_dec(0)),
             Line("cluster_known_nodes", format_dec(max(known_nodes, 1))),
             Line("cluster_size", format_dec(cluster_size)),
             Line("cluster_current_epoch", format_dec(d.config_epoch)),
             Line("cluster_my_epoch", format_dec(d.config_epoch)),
             Line("cluster_stats_messages_sent", format_dec(0)),
             Line("cluster_stats_messages_received", format_dec(0))>>))

(***************************************************************************)
(* CLUSTER SLOTS and CLUSTER NODES: both group the slot vector into ranges *)
(* of consecutive slots with the same owner, by the same loop              *)
(***************************************************************************)
Range(start, end, node_id) == [start |-> start, end |-> end, node_id |-> node_id]

\* the loop over slot_assignments.iter().enumerate() from slot on, then "Handle last range"
RECURSIVE scan_slots(_, _, _, _, _, _)
scan_slots(assignments, total, slot, current_start, current_node, ranges) ==
    IF slot >= total
    THEN IF is_some(current_start) /\ is_some(current_node)
         THEN Append(ranges, Range(unwrap(current_start), total - 1, unwrap(current_node)))
         ELSE ranges
    ELSE LET node == assignments[slot]
             started == IF is_some(node) THEN Some(slot) ELSE None     \* node.map(|_| slot)
         IN IF is_some(current_start) /\ is_some(current_node) /\ is_some(node)
               /\ unwrap(current_node) = unwrap(node)
            THEN scan_slots(assignments, total, slot + 1, current_start, current_node, ranges)
            ELSE IF is_some(current_start) /\ is_some(current_node)
            THEN scan_slots(assignments, total, slot + 1, started, node,
                            Append(ranges, Range(unwrap(current_start), slot - 1,
                                                 unwrap(current_node))))
            ELSE scan_slots(assignments, total, slot + 1, started, node, ranges)

\* one range from the first assigned slot to the last slot of the vector
slot_ranges_unbroken(assignments, total) ==
    LET assigned == {s \in DOMAIN assignments : is_some(assignments[s])}
        first == CHOOSE s \in assigned : \A x \in assigned : s <= x
    IN IF assigned = {} THEN <<>>
       ELSE <<Range(first, total - 1, unwrap(assignments[first]))>>

\* one range for every assigned slot
slot_ranges_per_slot(assignments, total) ==
    LET assigned == {s \in DOMAIN assignments : is_some(assignments[s])}
    IN [i \in 1..Cardinality(assigned) |->
           LET s == CHOOSE s \in assigned : Cardinality({x \in assigned : x < s}) = i - 1
           IN Range(s, s, unwrap(assignments[s]))]

\* the ranges of a slot vector of total slots (TOTAL_SLOTS in the source)
slot_ranges_of(assignments, total) == scan_slots(assignments, total, 0, None, None, <<>>)

slot_ranges(assignments) == slot_ranges_of(assignments, TOTAL_SLOTS)

\* addr.split(':'): the part before the first ':', and the part between the first and
\* the second (None when addr has no ':')
first_colon(s) ==
    IF \E i \in 1..Len(s) : s[i] = ":"
    THEN CHOOSE i \in 1..Len(s) : s[i] = ":" /\ \A j \in 1..(i - 1) : s[j] # ":"
    ELSE Len(s) + 1
split_first(s) == SubSeq(s, 1, first_colon(s) - 1)
split_second(s) ==
    IF first_colon(s) > Len(s) THEN None
    ELSE Some(split_first(SubSeq(s, first_colon(s) + 1, Len(s))))

LocalIp == <<"1", "2", "7", ".", "0", ".", "0", ".", "1">>

\* CLUSTER SLOTS on a slot vector of total slots (TOTAL_SLOTS in the source)
slots_of(lk, total) ==
    IF lk.poisoned THEN Out(lk, Panic)                  \* self.state.read().unwrap()
    ELSE
    LET d == lk.data
        ranges == slot_ranges_of(d.slot_assignments, total)
        entry(r) ==
            LET known == contains_key(d.nodes, r.node_id)
                addr == IF known THEN d.nodes[r.node_id].addr ELSE <<>>
                part == split_second(addr)
                \* the stored port was printed from a u16, so parse::<i64> reads it back
                port == IF is_some(part) THEN parse_u16(unwrap(part)) ELSE None
            IN [start |-> r.start, end |-> r.end,
                node |-> [ip |-> IF known THEN split_first(addr) ELSE LocalIp,
                          port |-> IF known /\ is_some(port) THEN unwrap(port) ELSE DEFAULT_PORT,
                          id |-> format_040x(r.node_id)]]
    IN Out(lk, Array([i \in 1..Len(ranges) |-> entry(ranges[i])]))

slots_locked(lk) == slots_of(lk, TOTAL_SLOTS)

\* the keys of a map in ascending order. A HashMap iterates in an order the program
\* does not fix; nothing below depends on the position of a line.
RECURSIVE keys_in_order(_)
keys_in_order(ks) ==
    IF ks = {} THEN <<>>
    ELSE LET k == CHOOSE x \in ks : \A y \in ks : x <= y
         IN <<k>> \o keys_in_order(ks \ {k})

\* "{}" for a range of one slot, "{}-{}" otherwise
format_range(r) ==
    IF r.start = r.end THEN format_dec(r.start)
    ELSE format_dec(r.start) \o <<"-">> \o format_dec(r.end)

\* a line of CLUSTER NODES, as its fields (the text joins them with spaces):
\* <node-id> <ip:port@cluster-port> <flags> - 0 0 <config-epoch> <link-state> <slot> ...
nodes_locked(self_id, lk) ==
    IF lk.poisoned THEN Out(lk, Panic)                  \* self.state.read().unwrap()
    ELSE
    LET d == lk.data
        my_node_id == IF is_some(self_id) THEN unwrap(self_id) ELSE 0
        ranges == slot_ranges(d.slot_assignments)
        node_slots(id) == SelectSeq(ranges, LAMBDA r : r.node_id = id)
        slots_str(id) == [i \in 1..Len(node_slots(id)) |-> format_range(node_slots(id)[i])]
        ids == keys_in_order(DOMAIN d.nodes)
        line(id) ==
            <<format_040x(id),
              d.nodes[id].addr \o <<"@">> \o format_dec(d.nodes[id].cluster_port),
              (IF id = my_node_id THEN <<"m", "y", "s", "e", "l", "f", ",">> ELSE <<>>)
                  \o (IF d.nodes[id].is_master THEN <<"m", "a", "s", "t", "e", "r">>
                      ELSE <<"s", "l", "a", "v", "e">>),
              <<"-">>, <<"0">>, <<"0">>,
              format_dec(d.config_epoch),
              IF d.nodes[id].is_connected THEN <<"c", "o", "n", "n", "e", "c", "t", "e", "d">>
              ELSE <<"d", "i", "s", "c", "o", "n", "n", "e", "c", "t", "e", "d">>>>
            \o slots_str(id)
        self_line ==
            <<format_040x(my_node_id),
              LocalAddr \o <<"@">> \o format_dec(DEFAULT_PORT + CLUSTER_PORT_OFFSET),
              <<"m", "y", "s", "e", "l", "f", ",", "m", "a", "s", "t", "e", "r">>,
              <<"-">>, <<"0">>, <<"0">>, <<"0">>,
              <<"c", "o", "n", "n", "e", "c", "t", "e", "d">>>>
    IN Out(lk, BulkString(IF DOMAIN d.nodes = {} THEN <<self_line>>
                          ELSE [i \in 1..Len(ids) |-> line(ids[i])]))

(***************************************************************************)
(* ClusterCommands::execute: dispatch on the upper-cased first argument    *)
(***************************************************************************)
KW_MEET == <<"M", "E", "E", "T">>
KW_FORGET == <<"F", "O", "R", "G", "E", "T">>
KW_ADDSLOTS == <<"A", "D", "D", "S", "L", "O", "T", "S">>
KW_DELSLOTS == <<"D", "E", "L", "S", "L", "O", "T", "S">>
KW_SETSLOT == <<"S", "E", "T", "S", "L", "O", "T">>
KW_KEYSLOT == <<"K", "E", "Y", "S", "L", "O", "T">>
KW_MYID == <<"M", "Y", "I", "D">>
KW_HELP == <<"H", "E", "L", "P">>

\* CLUSTER MYID: the node id of the handler, 0 if it has none; the arguments are
\* ignored and no lock is taken
myid(self_id, args) ==
    Early("MYID", BulkString(format_040x(IF is_some(self_id) THEN unwrap(self_id) ELSE 0)))

\* CLUSTER HELP: the lines of the help text
help ==
    Early("HELP",
          Array(<<"CLUSTER KEYSLOT <key>", "    Return the hash slot for <key>.",
                  "CLUSTER INFO", "    Return information about the cluster.",
                  "CLUSTER NODES", "    Return information about the cluster nodes.",
                  "CLUSTER SLOTS", "    Return information about slot-to-node mapping.",
                  "CLUSTER MYID", "    Return the node ID.",
                  "CLUSTER MEET <ip> <port> [<bus-port>]", "    Add a node to the cluster.",
                  "CLUSTER FORGET <node-id>", "    Remove a node from the cluster.",
                  "CLUSTER ADDSLOTS <slot> [<slot> ...]", "    Assign slots to this node.",
                  "CLUSTER DELSLOTS <slot> [<slot> ...]", "    Remove slot assignments.",
                  "CLUSTER SETSLOT <slot> IMPORTING|MIGRATING|NODE|STABLE [<node-id>]",
                  "    Set slot state or assign to node.">>))
KW_INFO == <<"I", "N", "F", "O">>
KW_SLOTS == <<"S", "L", "O", "T", "S">>
KW_NODES == <<"N", "O", "D", "E", "S">>

\* execute and the subcommand handlers up to the point where the lock is taken
execute_args(self_id, args) ==
    IF args = <<>> THEN Early("CLUSTER", Err("WrongArgCount", "CLUSTER"))
    ELSE
    LET subcommand == to_uppercase(args[1])
        rest == Tail(args)
    IN CASE subcommand = KW_MEET -> meet_args(rest)
         [] subcommand = KW_FORGET -> forget_args(self_id, rest)
         [] subcommand = KW_ADDSLOTS -> addslots_args(self_id, rest)
         [] subcommand = KW_DELSLOTS -> delslots_args(rest)
         [] subcommand = KW_SETSLOT -> setslot_args(rest)
         [] subcommand = KW_KEYSLOT -> keyslot_args(rest)
         [] subcommand = KW_INFO -> Cmd("INFO")
         [] subcommand = KW_SLOTS -> Cmd("SLOTS")
         [] subcommand = KW_NODES -> Cmd("NODES")
         [] subcommand = KW_MYID -> myid(self_id, rest)
         [] subcommand = KW_HELP -> help
         [] OTHER -> Early("CLUSTER", ErrStr("InvalidCommand", "Unknown CLUSTER subcommand: {}",
                                             subcommand))

\* the rest of the call, on the shared state
execute_locked(self_id, cmd, lk, overflow_checks) ==
    IF is_some(cmd.early) THEN Out(lk, unwrap(cmd.early))
    ELSE CASE cmd.op = "MEET" -> meet_locked(cmd, lk, overflow_checks)
           [] cmd.op = "FORGET" -> forget_locked(cmd, lk)
           [] cmd.op = "ADDSLOTS" -> addslots_locked(self_id, cmd, lk)
           [] cmd.op = "DELSLOTS" -> delslots_locked(self_id, cmd, lk)
           [] cmd.op = "IMPORTING" -> setslot_migration_locked("Importing", cmd, lk)
           [] cmd.op = "MIGRATING" -> setslot_migration_locked("Migrating", cmd, lk)
           [] cmd.op = "NODE" -> setslot_node_locked(self_id, cmd, lk)
           [] cmd.op = "STABLE" -> setslot_stable_locked(cmd, lk)
           [] cmd.op = "INFO" -> info_locked(lk)
           [] cmd.op = "SLOTS" -> slots_locked(lk)
           [] cmd.op = "NODES" -> nodes_locked(self_id, lk)

execute(self_id, args, lk, overflow_checks) ==
    execute_locked(self_id, execute_args(self_id, args), lk, overflow_checks)

(***************************************************************************)
(* The commands the handlers are given                                     *)
(***************************************************************************)
SeqsUpTo(S, n) == UNION {[1..k -> S] : k \in 0..n}

BadNumber == <<"x">>
TooBigForU16 == <<"7", "0", "0", "0", "0">>
ValidSlotTokens == {format_dec(s) : s \in 0..(TOTAL_SLOTS - 1)}

\* every list of up to MaxSlotArgs different valid slots, in every order, a list that
\* names a slot twice, and lists with a bad argument
SlotLists ==
    {l \in SeqsUpTo(ValidSlotTokens, MaxSlotArgs) : \A i, j \in 1..Len(l) : l[i] = l[j] => i = j}
    \cup {<<format_dec(0), format_dec(0)>>}
    \cup {<<BadNumber>>, <<TooBigForU16>>, <<format_dec(TOTAL_SLOTS)>>,
          <<format_dec(0), BadNumber>>, <<format_dec(0), format_dec(TOTAL_SLOTS)>>}

\* node ids as the text a client sends: the 40-digit rendering of the handlers' ids and
\* of the ids MEET can create, an upper-case id of no node, and two that do not parse
KnownIds == 1..(HashBase + Len(MeetPorts))
UnknownIdToken == <<"A">>
BadIdToken == <<"z">>
TooBigForU64 == [i \in 1..(U64_HEX_DIGITS + 1) |-> "f"]
NodeIdTokens == {format_040x(i) : i \in KnownIds} \cup {UnknownIdToken, BadIdToken, TooBigForU64}

MeetArgs ==
    {<<>>, <<MeetIp>>}
    \cup {<<MeetIp, port>> : port \in {format_dec(MeetPorts[i]) : i \in 1..Len(MeetPorts)}
                                      \cup {BadNumber}}
    \cup {<<MeetIp, format_dec(MeetPorts[i]), cport>> :
              i \in 1..Len(MeetPorts), cport \in {<<"7">>, BadNumber}}

ForgetArgs == {<<>>} \cup {<<id>> : id \in NodeIdTokens}
                     \cup {<<format_040x(1), format_040x(1)>>}

\* SETSLOT is given a node MEET can add and a node nobody has met; NODE also the id of
\* the first handler
MigrationIdTokens == {format_040x(HashBase + 1), UnknownIdToken}
SetslotArgs ==
    {<<slot, kw, id>> : slot \in ValidSlotTokens, kw \in {KW_IMPORTING, KW_MIGRATING, KW_NODE},
                        id \in MigrationIdTokens}
    \cup {<<slot, KW_NODE, format_040x(1)>> : slot \in ValidSlotTokens}
    \cup {<<slot, KW_STABLE>> : slot \in ValidSlotTokens}
    \cup {<<format_dec(0), kw>> : kw \in {KW_IMPORTING, KW_MIGRATING, KW_NODE, <<"X">>,
                                          <<"s", "t", "a", "b", "l", "e">>}}
    \cup {<<format_dec(0), kw, BadIdToken>> : kw \in {KW_IMPORTING, KW_MIGRATING, KW_NODE}}
    \cup {<<>>, <<format_dec(0)>>, <<BadNumber, KW_STABLE>>,
          <<format_dec(TOTAL_SLOTS), KW_STABLE>>, <<TooBigForU16, KW_STABLE>>}

OtherArgs == {<<>>, <<<<"B", "O", "G", "U", "S">>>>,
              <<<<"f", "o", "r", "g", "e", "t">>, format_040x(HashBase + 1)>>}

\* a call: the handler's node id, the argument list, what the handler has made of the
\* arguments when it comes to take the lock, and whether an integer overflow in the call
\* panics or wraps (the build decides; only MEET adds integers)
Call(self_id, args, overflow_checks) ==
    [self_id |-> self_id, args |-> args, cmd |-> execute_args(self_id, args),
     overflow_checks |-> overflow_checks]
CallsOf(kw, arglists, profiles) ==
    {Call(self_id, <<kw>> \o args, overflow_checks) :
        self_id \in HandlerIds, args \in arglists, overflow_checks \in profiles}

MeetCalls == CallsOf(KW_MEET, MeetArgs, BOOLEAN)
ForgetCalls == CallsOf(KW_FORGET, ForgetArgs, {FALSE})
AddslotsCalls == CallsOf(KW_ADDSLOTS, SlotLists, {FALSE})
DelslotsCalls == CallsOf(KW_DELSLOTS, SlotLists, {FALSE})
SetslotCalls == CallsOf(KW_SETSLOT, SetslotArgs, {FALSE})
OtherCalls == {Call(self_id, args, FALSE) : self_id \in HandlerIds, args \in OtherArgs}

\* keys: with one hash tag, with the tag after other bytes, with two tags, with a second
\* '{' inside the tag, with an empty tag, with no closing or no opening brace, with '}'
\* before '{', and the tag bodies themselves
Keys == {<<"{", "a", "}", "x">>, <<"{", "a", "}", "y">>, <<"x", "{", "a", "}">>,
         <<"{", "a", "}", "{", "b", "}">>, <<"{", "b", "}", "x">>, <<"{", "{", "a", "}", "x">>,
         <<"{", "}", "a">>, <<"{", "a">>, <<"a", "}">>, <<"}", "{", "b", "}">>,
         <<"a">>, <<"b">>, <<"x">>, <<>>}
KeyslotArgs == {<<k>> : k \in Keys} \cup {<<>>, <<<<"a">>, <<"b">>>>}

\* the read-only subcommands; INFO, NODES and SLOTS ignore their arguments
IgnoredArgs == {<<>>, <<BadNumber>>}
InfoCalls == CallsOf(KW_INFO, IgnoredArgs, {FALSE})
SlotsCalls == CallsOf(KW_SLOTS, IgnoredArgs, {FALSE})
NodesCalls == CallsOf(KW_NODES, IgnoredArgs, {FALSE})
ReadCalls == InfoCalls \cup SlotsCalls \cup NodesCalls
             \cup CallsOf(KW_KEYSLOT, {<<>>, <<<<"{", "a", "}", "x">>>>}, {FALSE})
             \cup CallsOf(KW_MYID, IgnoredArgs, {FALSE})
             \cup CallsOf(KW_HELP, IgnoredArgs, {FALSE})

RedirectKeys == {<<"a">>, <<"b">>, <<"x">>, <<"{", "a", "}", "x">>}
RedirectCalls ==
    {RedirectCall(self_id, key, cluster_feature, leader_address, key_exists) :
        self_id \in HandlerIds, key \in RedirectKeys, cluster_feature \in BOOLEAN,
        leader_address \in {None, Some(LocalAddr), Some(MeetAddrs[1])},
        key_exists \in BOOLEAN}

Calls == MeetCalls \cup ForgetCalls \cup AddslotsCalls \cup DelslotsCalls \cup SetslotCalls
         \cup OtherCalls \cup ReadCalls

\* the outcome of a call in the current state
Outcome(c) == execute_locked(c.self_id, c.cmd, state, c.overflow_checks)

(***************************************************************************)
(* ScriptCommands: the script cache, EVAL and EVALSHA. An argument is a    *)
(* byte string, written as its runs of valid UTF-8, each one element, and  *)
(* its invalid bytes, each one element.                                    *)
(***************************************************************************)
InvalidBytes == {"0xFF", "0xFE"}
REPLACEMENT_CHARACTER == "U+FFFD"

\* String::from_utf8_lossy(bytes).to_string()
from_utf8_lossy(bytes) ==
    [i \in 1..Len(bytes) |-> IF bytes[i] \in InvalidBytes THEN REPLACEMENT_CHARACTER
                             ELSE bytes[i]]

\* str::parse::<usize>() (the model's numbers are far below usize::MAX)
USIZE_DEC_DIGITS == 20
parse_usize(s) == parse_digits(s, 10, USIZE_DEC_DIGITS, -1)

\* the Lua programs of the model, and a comment that may follow one
LUA_RETURN_1 == "return 1"
LUA_SET == "return redis.call('SET', KEYS[1], ARGV[1])"
LUA_GET == "return redis.call('GET', KEYS[1])"
LUA_UNFINISHED == "return ("
LUA_RETURN_FALSE == "return false"
LUA_RETURN_TRUE == "return true"
LUA_SET_GET == "redis.call('SET', KEYS[1], ARGV[1]); return redis.call('GET', KEYS[1])"
\* a host command that fails, through call and through pcall, followed by a SET
LUA_CALL_PING == "local r = redis.call('PING'); redis.call('SET', KEYS[1], ARGV[1]); return r"
LUA_PCALL_PING == "local r = redis.pcall('PING'); redis.call('SET', KEYS[1], ARGV[1]); return r"
LUA_CALL_ARITY == "local r = redis.call('GET'); redis.call('SET', KEYS[1], ARGV[1]); return r"
LUA_PCALL_ARITY == "local r = redis.pcall('GET'); redis.call('SET', KEYS[1], ARGV[1]); return r"
LUA_CALL_TABLE == "local r = redis.call('GET', {}); redis.call('SET', KEYS[1], ARGV[1]); return r"
LUA_PCALL_TABLE == "local r = redis.pcall('GET', {}); redis.call('SET', KEYS[1], ARGV[1]); return r"
LUA_SET_THEN_PING == "redis.call('SET', KEYS[1], ARGV[1]); return redis.call('PING')"
LUA_DEL_THEN_ERROR == "redis.call('DEL', KEYS[1]); error('abort')"
LUA_EXISTS == "return redis.call('EXISTS', KEYS[1])"
LUA_COMMENT == " --"

\* the source texts the model knows, in the order of their digests
KnownTexts == <<<<LUA_RETURN_1>>, <<LUA_SET>>, <<LUA_GET>>, <<LUA_UNFINISHED>>,
                <<LUA_RETURN_1, LUA_COMMENT, REPLACEMENT_CHARACTER>>>>
KnownTextSet == {KnownTexts[i] : i \in 1..Len(KnownTexts)}

\* calculate_sha1: the SHA-1 of the text as 40 lower-case hex digits. The model numbers
\* the texts injectively (no two texts of the model collide).
Sha1Base == 160
calculate_sha1(script) ==
    format_040x(Sha1Base + (IF script \in KnownTextSet
                            THEN CHOOSE i \in 1..Len(KnownTexts) : KnownTexts[i] = script
                            ELSE Len(KnownTexts) + 1))

\* the storage facade: get_from_db and set_in_db
StorageAdapter_new(databases) == [db \in databases |-> EmptyMap]
get_from_db(store, db_index, key) ==
    IF contains_key(store[db_index], key) THEN Some(store[db_index][key]) ELSE None
set_in_db(store, db_index, key, value) ==
    [store EXCEPT ![db_index] = insert(@, key, value)]

delete_from_db(store, db_index, key) ==
    [deleted |-> contains_key(store[db_index], key),
     storage |-> [store EXCEPT ![db_index] = remove(@, key)]]
exists_in_db(store, db_index, key) == contains_key(store[db_index], key)

\* RespValue::Null
Null == [kind |-> "Ok", msg |-> "null", n |-> -1, s |-> <<>>]

\* the values of the interpreter
LuaNil == [t |-> "nil", i |-> 0, s |-> <<>>, b |-> FALSE]
LuaBoolean(b) == [t |-> "boolean", i |-> 0, s |-> <<>>, b |-> b]
LuaInteger(i) == [t |-> "integer", i |-> i, s |-> <<>>, b |-> FALSE]
LuaString(s) == [t |-> "string", i |-> 0, s |-> s, b |-> FALSE]
LuaTable == [t |-> "table", i |-> 0, s |-> <<>>, b |-> FALSE]

\* lua_to_resp, on the values above
lua_to_resp(value) ==
    CASE value.t = "nil" -> Null
      [] value.t = "boolean" -> Integer(IF value.b THEN 1 ELSE 0)
      [] value.t = "integer" -> Integer(value.i)
      [] value.t = "string" -> BulkString(value.s)
      [] value.t = "table" -> Array(<<>>)

\* resp_to_lua, on the results of GET and SET
resp_to_lua(value) ==
    CASE value.msg = "null" -> LuaBoolean(FALSE)
      [] value.msg = "OK" -> LuaString(<<"OK">>)
      [] value.msg = "integer" -> LuaInteger(value.n)
      [] value.msg = "bulk" -> LuaString(value.s)

Called(raised, value, store) == [raised |-> raised, value |-> value, storage |-> store]

KW_GET == <<"G", "E", "T">>
KW_SET == <<"S", "E", "T">>
KW_PING == <<"P", "I", "N", "G">>
KW_DEL == <<"D", "E", "L">>
KW_EXISTS == <<"E", "X", "I", "S", "T", "S">>

\* execute_del: the keys are deleted one after the other, and counted
RECURSIVE execute_del(_, _, _)
execute_del(store, db_index, keys) ==
    IF keys = <<>> THEN [count |-> 0, storage |-> store]
    ELSE LET first == delete_from_db(store, db_index, from_utf8_lossy(Head(keys)))
             rest == execute_del(first.storage, db_index, Tail(keys))
         IN [count |-> (IF first.deleted THEN 1 ELSE 0) + rest.count, storage |-> rest.storage]

\* execute_exists: the keys that exist, counted with their repetitions
execute_exists(store, db_index, keys) ==
    Cardinality({i \in 1..Len(keys) : exists_in_db(store, db_index, from_utf8_lossy(keys[i]))})

\* a failed host command that returns nil to the script through call as through pcall
call_failed_returns_nil(throw_error, store) == Called(FALSE, LuaNil, store)

\* a failed host command: a Lua error when throw_error, else nil
call_failed(throw_error, store) == Called(throw_error, LuaNil, store)

\* redis_call for redis.call (throw_error) and redis.pcall: raised is whether a Lua error
\* is raised
redis_call(store, db_index, args, throw_error) ==
    IF \E i \in 1..Len(args) : args[i].t \notin {"string", "integer", "boolean"}
    THEN call_failed(throw_error, store)                 \* "Invalid argument type"
    ELSE IF args = <<>> THEN call_failed(throw_error, store)   \* "No command specified"
    ELSE
    LET cmd_args == [i \in 1..Len(args) |->
                        CASE args[i].t = "string" -> args[i].s
                          [] args[i].t = "integer" -> format_dec(args[i].i)
                          [] args[i].t = "boolean" -> IF args[i].b THEN <<"1">> ELSE <<"0">>]
        command == to_uppercase(cmd_args[1])
        command_args == Tail(cmd_args)
    IN CASE command = KW_GET ->
                IF Len(command_args) # 1 THEN call_failed(throw_error, store)
                ELSE LET found == get_from_db(store, db_index, from_utf8_lossy(command_args[1]))
                     IN Called(FALSE,
                               resp_to_lua(IF is_some(found) THEN BulkString(unwrap(found))
                                           ELSE Null),
                               store)
         [] command = KW_SET ->
                IF Len(command_args) < 2 THEN call_failed(throw_error, store)
                ELSE Called(FALSE, resp_to_lua(Ok),
                            set_in_db(store, db_index, from_utf8_lossy(command_args[1]),
                                      command_args[2]))
         [] command = KW_DEL ->
                IF command_args = <<>> THEN call_failed(throw_error, store)
                ELSE LET done == execute_del(store, db_index, command_args)
                     IN Called(FALSE, resp_to_lua(Integer(done.count)), done.storage)
         [] command = KW_EXISTS ->
                IF command_args = <<>> THEN call_failed(throw_error, store)
                ELSE Called(FALSE,
                            resp_to_lua(Integer(execute_exists(store, db_index, command_args))),
                            store)
         [] OTHER -> call_failed(throw_error, store)  \* "Command not supported in scripts"

Ran(result, store) == [result |-> result, storage |-> store]

\* a failed script that leaves the storage as it was before the script
script_failed_rolled_back(before, now) ==
    Ran(Err("Script", "Script execution error: {}"), before)

\* a failed script: the error is mapped to a Script error, and the storage is what the
\* host calls have made of it
script_failed(before, now) == Ran(Err("Script", "Script execution error: {}"), now)

\* KEYS[i] and ARGV[i]: nil beyond the end of the table
lua_index(table, i) == IF i <= Len(table) THEN LuaString(table[i]) ELSE LuaNil

\* execute_script: the interpreter on the programs of the model. The first element of
\* the text is the program, the rest a comment.
execute_script(script, keys, argv, db_index, store) ==
    LET program == IF script = <<>> THEN "" ELSE script[1]
        finish(called) ==
            IF called.raised
            THEN script_failed(store, called.storage)
            ELSE Ran(lua_to_resp(called.value), called.storage)
        set_call(st) ==
            redis_call(st, db_index,
                       <<LuaString(KW_SET), lua_index(keys, 1), lua_index(argv, 1)>>, TRUE)
        \* local r = <first>; redis.call('SET', KEYS[1], ARGV[1]); return r
        then_set(first) ==
            IF first.raised THEN finish(first)
            ELSE LET second == set_call(first.storage)
                 IN IF second.raised THEN finish(second)
                    ELSE finish(Called(FALSE, first.value, second.storage))
    IN CASE program = LUA_RETURN_1 -> Ran(lua_to_resp(LuaInteger(1)), store)
         [] program = LUA_RETURN_FALSE -> Ran(lua_to_resp(LuaBoolean(FALSE)), store)
         [] program = LUA_RETURN_TRUE -> Ran(lua_to_resp(LuaBoolean(TRUE)), store)
         [] program = LUA_SET_GET ->
                LET first == set_call(store)
                IN IF first.raised THEN finish(first)
                   ELSE finish(redis_call(first.storage, db_index,
                                          <<LuaString(KW_GET), lua_index(keys, 1)>>, TRUE))
         [] program = LUA_SET_THEN_PING ->
                LET first == set_call(store)
                IN IF first.raised THEN finish(first)
                   ELSE finish(redis_call(first.storage, db_index, <<LuaString(KW_PING)>>, TRUE))
         [] program = LUA_DEL_THEN_ERROR ->
                LET first == redis_call(store, db_index,
                                        <<LuaString(KW_DEL), lua_index(keys, 1)>>, TRUE)
                IN IF first.raised THEN finish(first)
                   ELSE script_failed(store, first.storage)      \* error('abort')
         [] program = LUA_EXISTS ->
                finish(redis_call(store, db_index,
                                  <<LuaString(KW_EXISTS), lua_index(keys, 1)>>, TRUE))
         [] program = LUA_CALL_PING ->
                then_set(redis_call(store, db_index, <<LuaString(KW_PING)>>, TRUE))
         [] program = LUA_PCALL_PING ->
                then_set(redis_call(store, db_index, <<LuaString(KW_PING)>>, FALSE))
         [] program = LUA_CALL_ARITY ->
                then_set(redis_call(store, db_index, <<LuaString(KW_GET)>>, TRUE))
         [] program = LUA_PCALL_ARITY ->
                then_set(redis_call(store, db_index, <<LuaString(KW_GET)>>, FALSE))
         [] program = LUA_CALL_TABLE ->
                then_set(redis_call(store, db_index, <<LuaString(KW_GET), LuaTable>>, TRUE))
         [] program = LUA_PCALL_TABLE ->
                then_set(redis_call(store, db_index, <<LuaString(KW_GET), LuaTable>>, FALSE))
         [] program = LUA_SET ->
                finish(redis_call(store, db_index,
                                  <<LuaString(KW_SET), lua_index(keys, 1), lua_index(argv, 1)>>,
                                  TRUE))
         [] program = LUA_GET ->
                finish(redis_call(store, db_index, <<LuaString(KW_GET), lua_index(keys, 1)>>,
                                  TRUE))
         [] OTHER -> script_failed(store, store)

\* EVAL script numkeys [key ...] [arg ...]
eval(args, db_index, store) ==
    IF Len(args) < 2 THEN Ran(Err("WrongArgCount", "EVAL"), store)
    ELSE LET script == from_utf8_lossy(args[1])
             numkeys == parse_usize(from_utf8_lossy(args[2]))
         IN IF ~is_some(numkeys)
            THEN Ran(Err("InvalidArgument", "numkeys must be a number"), store)
            ELSE IF Len(args) < 2 + unwrap(numkeys)
            THEN Ran(Err("InvalidArgument", "Number of keys doesn't match numkeys parameter"),
                     store)
            ELSE LET keys == [i \in 1..unwrap(numkeys) |-> from_utf8_lossy(args[2 + i])]
                     argv == [i \in 1..(Len(args) - 2 - unwrap(numkeys)) |->
                                 from_utf8_lossy(args[2 + unwrap(numkeys) + i])]
                 IN execute_script(script, keys, argv, db_index, store)

\* EVALSHA that finds every text the server has ever known, cached or not
evalsha_any_known_text(args, db_index, cache, store) ==
    IF Len(args) >= 1
       /\ \E script \in KnownTextSet : calculate_sha1(script) = from_utf8_lossy(args[1])
    THEN eval(<<CHOOSE script \in KnownTextSet :
                    calculate_sha1(script) = from_utf8_lossy(args[1])>> \o Tail(args),
              db_index, store)
    ELSE Ran(Err("InvalidArgument", "NOSCRIPT No matching script. Use EVAL."), store)

\* EVALSHA run in the first database, whatever the selected one
evalsha_first_database(args, db_index, cache, store) ==
    IF Len(args) < 2 \/ ~contains_key(cache, from_utf8_lossy(args[1]))
    THEN Ran(Err("InvalidArgument", "NOSCRIPT No matching script. Use EVAL."), store)
    ELSE eval(<<cache[from_utf8_lossy(args[1])]>> \o Tail(args), 0, store)

\* EVALSHA sha1 numkeys [key ...] [arg ...]: the cache is read under its read lock and
\* the text cloned before the interpreter runs
evalsha(args, db_index, cache, store) ==
    IF Len(args) < 2 THEN Ran(Err("WrongArgCount", "EVALSHA"), store)
    ELSE LET sha1 == from_utf8_lossy(args[1])
             numkeys == parse_usize(from_utf8_lossy(args[2]))
         IN IF ~is_some(numkeys)
            THEN Ran(Err("InvalidArgument", "numkeys must be a number"), store)
            ELSE IF Len(args) < 2 + unwrap(numkeys)
            THEN Ran(Err("InvalidArgument", "Number of keys doesn't match numkeys parameter"),
                     store)
            ELSE IF ~contains_key(cache, sha1)
            THEN Ran(Err("InvalidArgument", "NOSCRIPT No matching script. Use EVAL."), store)
            ELSE LET script == cache[sha1]
                     keys == [i \in 1..unwrap(numkeys) |-> from_utf8_lossy(args[2 + i])]
                     argv == [i \in 1..(Len(args) - 2 - unwrap(numkeys)) |->
                                 from_utf8_lossy(args[2 + unwrap(numkeys) + i])]
                 IN execute_script(script, keys, argv, db_index, store)

Cached(result, cache) == [result |-> result, cache |-> cache]

\* SCRIPT LOAD script
script_load(args, cache) ==
    IF Len(args) # 1 THEN Cached(Err("WrongArgCount", "SCRIPT LOAD"), cache)
    ELSE LET script == from_utf8_lossy(args[1])
             sha1 == calculate_sha1(script)
         IN Cached(BulkString(sha1), insert(cache, sha1, script))

\* SCRIPT EXISTS sha1 [sha1 ...]
script_exists(args, cache) ==
    IF args = <<>> THEN Cached(Err("WrongArgCount", "SCRIPT EXISTS"), cache)
    ELSE Cached(Array([i \in 1..Len(args) |->
                          Integer(IF contains_key(cache, from_utf8_lossy(args[i]))
                                  THEN 1 ELSE 0)]),
                cache)

\* SCRIPT FLUSH that leaves the cache as it is
script_flush_keeps_cache(args, cache) == Cached(Ok, cache)

\* SCRIPT FLUSH [ASYNC|SYNC]
script_flush(args, cache) == Cached(Ok, EmptyMap)

\* the arguments of the script commands
Scripts == {<<LUA_RETURN_1>>, <<LUA_SET>>, <<LUA_GET>>, <<LUA_UNFINISHED>>,
            <<LUA_RETURN_1, LUA_COMMENT, "0xFF">>, <<LUA_RETURN_1, LUA_COMMENT, "0xFE">>}
UnknownSha == format_040x(Sha1Base)
Shas == {calculate_sha1(from_utf8_lossy(s)) : s \in Scripts} \cup {UnknownSha}
LoadArgs == {<<s>> : s \in Scripts} \cup {<<>>}
ExistsArgs == {<<a>> : a \in Shas} \cup {<<>>, <<calculate_sha1(<<LUA_SET>>), UnknownSha>>}
FlushArgs == {<<>>, <<<<"S", "Y", "N", "C">>>>}
\* numkeys and what follows it: no key, a key and a value, a key, a key too few, not a number
EvalRest == {<<<<"0">>>>, <<<<"1">>, <<"k">>, <<"v">>>>, <<<<"1">>, <<"k">>>>,
             <<<<"0">>, <<"k">>, <<"w">>>>, <<<<"2">>, <<"k">>>>, <<<<"x">>>>, <<>>}
Databases == {0, 1}

\* the scripts that call the host, and their keys and values: valid UTF-8 and not
CallPrograms == {LUA_CALL_PING, LUA_CALL_ARITY, LUA_CALL_TABLE}
AbortPrograms == {LUA_SET_THEN_PING, LUA_DEL_THEN_ERROR}
PcallPrograms == {LUA_PCALL_PING, LUA_PCALL_ARITY, LUA_PCALL_TABLE}
HostScripts == {<<p>> : p \in CallPrograms \cup PcallPrograms
                              \cup AbortPrograms
                              \cup {LUA_SET_GET, LUA_GET, LUA_EXISTS, LUA_RETURN_FALSE,
                                    LUA_RETURN_TRUE}}
HostKeys == {<<"k">>, <<"j">>, <<"0xFF">>}
HostValues == {<<"v">>, <<"v", "0xFE">>}
KeyAndValue == {<<<<"1">>, k, v>> : k \in HostKeys, v \in HostValues}
HostRest == KeyAndValue \cup {<<<<"1">>, k>> : k \in HostKeys} \cup {<<<<"0">>>>}

(***************************************************************************)
(* DUMP and RESTORE on the typed values of the StorageEngine. A value is a *)
(* string, a list of strings or a hash from fields to strings; a payload   *)
(* is a type tag followed by the frames of the value.                      *)
(***************************************************************************)
StringValue(s) == [type |-> "string", string |-> s, list |-> <<>>, hash |-> EmptyMap]
ListValue(l) == [type |-> "list", string |-> <<>>, list |-> l, hash |-> EmptyMap]
HashValue(h) == [type |-> "hash", string |-> <<>>, list |-> <<>>, hash |-> h]

TAG_STRING == "string"
TAG_LIST == "list"
TAG_HASH == "hash"

\* the fields of the model's hashes, in the order the engine iterates them
HashFields == <<<<"f">>, <<"g">>>>

\* a payload that carries the frames of the value but no type
serialize_without_type(value) ==
    <<TAG_LIST>> \o (IF value.type = "string" THEN <<value.string>> ELSE value.list)

\* the payload of a value: its type, then its frames (a hash as field, value, ...)
serialize(value) ==
    CASE value.type = "string" -> <<TAG_STRING, value.string>>
      [] value.type = "list" -> <<TAG_LIST>> \o value.list
      [] value.type = "hash" ->
            LET fields == SelectSeq(HashFields, LAMBDA f : f \in DOMAIN value.hash)
            IN <<TAG_HASH>> \o [i \in 1..(2 * Len(fields)) |->
                                   IF i % 2 = 1 THEN fields[(i + 1) \div 2]
                                   ELSE value.hash[fields[i \div 2]]]

\* the value of a payload, None when the payload is not one
deserialize(payload) ==
    IF payload = <<>> THEN None
    ELSE LET tag == payload[1]
             body == Tail(payload)
         IN CASE tag = TAG_STRING /\ Len(body) = 1 -> Some(StringValue(body[1]))
              [] tag = TAG_LIST /\ Len(body) >= 1 -> Some(ListValue(body))
              [] tag = TAG_HASH /\ Len(body) >= 2 /\ Len(body) % 2 = 0 ->
                    LET pairs == 1..(Len(body) \div 2)
                        last(f) == CHOOSE i \in pairs :
                                       /\ body[2 * i - 1] = f
                                       /\ \A j \in pairs : body[2 * j - 1] = f => j <= i
                    IN Some(HashValue([f \in {body[2 * i - 1] : i \in pairs} |->
                                          body[2 * last(f)]]))
              [] OTHER -> None

Stored(result, eng) == [result |-> result, engine |-> eng]

KW_REPLACE == <<"R", "E", "P", "L", "A", "C", "E">>

\* DUMP key: the payload of the value, Null for a key that does not exist
dump(eng, args) ==
    IF Len(args) # 1 THEN Stored(Err("WrongArgCount", "DUMP"), eng)
    ELSE IF ~contains_key(eng, args[1]) THEN Stored(Null, eng)
    ELSE Stored(BulkString(serialize(eng[args[1]])), eng)

\* RESTORE key ttl payload [REPLACE], with a ttl of 0 (no expiry)
restore(eng, args) ==
    IF Len(args) < 3 THEN Stored(Err("WrongArgCount", "RESTORE"), eng)
    ELSE IF ~is_some(parse_usize(args[2]))
    THEN Stored(Err("InvalidArgument", "Invalid TTL value"), eng)
    ELSE IF contains_key(eng, args[1])
            /\ ~\E i \in 4..Len(args) : to_uppercase(args[i]) = KW_REPLACE
    THEN Stored(Err("InvalidArgument", "BUSYKEY Target key name already exists"), eng)
    ELSE IF ~is_some(deserialize(args[3]))
    THEN Stored(Err("InvalidArgument", "Bad data format"), eng)
    ELSE Stored(Ok, insert(eng, args[1], unwrap(deserialize(args[3]))))

\* SET key value
engine_set(eng, args) ==
    IF Len(args) < 2 THEN Stored(Err("WrongArgCount", "SET"), eng)
    ELSE Stored(Ok, insert(eng, args[1], StringValue(args[2])))

\* RPUSH key item: appends to the list at key, creating it
engine_rpush(eng, args) ==
    IF Len(args) < 2 THEN Stored(Err("WrongArgCount", "RPUSH"), eng)
    ELSE IF ~contains_key(eng, args[1])
    THEN Stored(Integer(Len(args) - 1), insert(eng, args[1], ListValue(Tail(args))))
    ELSE IF eng[args[1]].type # "list"
    THEN Stored(Err("WrongType", "WRONGTYPE"), eng)
    ELSE Stored(Integer(Len(eng[args[1]].list) + Len(args) - 1),
                insert(eng, args[1], ListValue(eng[args[1]].list \o Tail(args))))

\* HSET key field value: sets the field of the hash at key, creating it
engine_hset(eng, args) ==
    IF Len(args) # 3 THEN Stored(Err("WrongArgCount", "HSET"), eng)
    ELSE IF ~contains_key(eng, args[1])
    THEN Stored(Integer(1), insert(eng, args[1], HashValue(insert(EmptyMap, args[2], args[3]))))
    ELSE IF eng[args[1]].type # "hash"
    THEN Stored(Err("WrongType", "WRONGTYPE"), eng)
    ELSE Stored(Integer(IF contains_key(eng[args[1]].hash, args[2]) THEN 0 ELSE 1),
                insert(eng, args[1], HashValue(insert(eng[args[1]].hash, args[2], args[3]))))

\* DEL key
engine_del(eng, args) ==
    IF args = <<>> THEN Stored(Err("WrongArgCount", "DEL"), eng)
    ELSE Stored(Integer(IF contains_key(eng, args[1]) THEN 1 ELSE 0), remove(eng, args[1]))

\* the arguments of the commands on the engine
EngineKeys == {<<"a">>, <<"b">>}
EngineValues == {<<"v">>, <<"w">>}
BadPayloads == {<<>>, <<"zset", <<"v">>>>, <<TAG_STRING>>, <<TAG_HASH, <<"f">>>>}
Payloads(eng) == {serialize(eng[k]) : k \in DOMAIN eng} \cup BadPayloads
RestoreArgs(eng) ==
    {<<k, ttl, payload>> \o replace :
        k \in EngineKeys, ttl \in {<<"0">>, <<"x">>}, payload \in Payloads(eng),
        replace \in {<<>>, <<KW_REPLACE>>}}
    \cup {<<k>> : k \in EngineKeys}

(***************************************************************************)
(* Initial state and actions: one per CLUSTER subcommand, each a whole     *)
(* call under the lock                                                     *)
(***************************************************************************)
\* the handlers that run concurrently in SpecConc
ConcIds == {1, 2}
Idle == [pc |-> "idle", cmd |-> Cmd("ADDSLOTS"), i |-> 0, result |-> None, seen |-> <<>>,
         args |-> <<>>, db_index |-> 0, guard |-> FALSE]

\* the history of a slot with no successful migration command yet, or cleared
NoMigration == [kind |-> "Stable", node_id |-> 0]

Init ==
    /\ state = with_node_id(1)
    /\ mutations = 0
    /\ last_migration = [s \in 0..(TOTAL_SLOTS - 1) |-> NoMigration]
    /\ writer = None
    /\ task = [h \in ConcIds |-> Idle]
    /\ script_cache = EmptyMap
    /\ storage = StorageAdapter_new(Databases)
    /\ loaded = [script \in KnownTextSet |-> "never"]
    /\ evaluated = {}
    /\ engine = EmptyMap

\* the epoch is explored up to MaxEpoch
Bounded == state.data.config_epoch < MaxEpoch

Counted(c) == IF Outcome(c).result = Ok THEN mutations + 1 ELSE mutations

\* the slots whose migration state call c is about, and what it does to them, by the
\* command alone: SETSLOT names one slot, DELSLOTS lists some, the rest name none
Recorded(c) ==
    IF Outcome(c).result # Ok THEN last_migration
    ELSE CASE c.cmd.op = "MIGRATING" ->
                [last_migration EXCEPT
                    ![c.cmd.slot] = [kind |-> "Migrating", node_id |-> c.cmd.node_id]]
           [] c.cmd.op = "IMPORTING" ->
                [last_migration EXCEPT
                    ![c.cmd.slot] = [kind |-> "Importing", node_id |-> c.cmd.node_id]]
           [] c.cmd.op \in {"STABLE", "NODE"} ->
                [last_migration EXCEPT ![c.cmd.slot] = NoMigration]
           [] c.cmd.op = "DELSLOTS" ->
                [s \in DOMAIN last_migration |->
                    IF \E i \in 1..Len(c.cmd.slots) : c.cmd.slots[i] = s
                    THEN NoMigration ELSE last_migration[s]]
           [] OTHER -> last_migration

Meet ==
    \E c \in MeetCalls :
        /\ Bounded
        /\ state' = Outcome(c).lk
        /\ mutations' = Counted(c)
        /\ last_migration' = Recorded(c)
        /\ UNCHANGED <<writer, task, script_cache, storage, loaded, evaluated, engine>>

Forget ==
    \E c \in ForgetCalls :
        /\ Bounded
        /\ state' = Outcome(c).lk
        /\ mutations' = Counted(c)
        /\ last_migration' = Recorded(c)
        /\ UNCHANGED <<writer, task, script_cache, storage, loaded, evaluated, engine>>

Addslots ==
    \E c \in AddslotsCalls :
        /\ Bounded
        /\ state' = Outcome(c).lk
        /\ mutations' = Counted(c)
        /\ last_migration' = Recorded(c)
        /\ UNCHANGED <<writer, task, script_cache, storage, loaded, evaluated, engine>>

Delslots ==
    \E c \in DelslotsCalls :
        /\ Bounded
        /\ state' = Outcome(c).lk
        /\ mutations' = Counted(c)
        /\ last_migration' = Recorded(c)
        /\ UNCHANGED <<writer, task, script_cache, storage, loaded, evaluated, engine>>

Setslot ==
    \E c \in SetslotCalls :
        /\ Bounded
        /\ state' = Outcome(c).lk
        /\ mutations' = Counted(c)
        /\ last_migration' = Recorded(c)
        /\ UNCHANGED <<writer, task, script_cache, storage, loaded, evaluated, engine>>

\* an empty argument list, an unknown subcommand, a lower-case subcommand
Other ==
    \E c \in OtherCalls :
        /\ Bounded
        /\ state' = Outcome(c).lk
        /\ mutations' = Counted(c)
        /\ last_migration' = Recorded(c)
        /\ UNCHANGED <<writer, task, script_cache, storage, loaded, evaluated, engine>>

\* KEYSLOT, INFO, NODES, SLOTS, MYID and HELP: the state is read, never written
Read ==
    \E c \in ReadCalls :
        /\ Bounded
        /\ state' = Outcome(c).lk
        /\ mutations' = Counted(c)
        /\ last_migration' = Recorded(c)
        /\ UNCHANGED <<writer, task, script_cache, storage, loaded, evaluated, engine>>

\* the slots that the handler of call c owns
local_slots(c) == [s \in DOMAIN state.data.slot_assignments |->
                      is_some(c.self_id) /\ state.data.slot_assignments[s] = c.self_id]

\* check_redirect neither locks nor changes anything
Redirect ==
    \E c \in RedirectCalls :
        /\ Bounded
        /\ check_redirect(c, local_slots(c)) \in {None, Some(<<c.slot, LocalAddr>>),
                                                   Some(<<c.slot, MeetAddrs[1]>>)}
        /\ UNCHANGED vars

Next == Meet \/ Forget \/ Addslots \/ Delslots \/ Setslot \/ Other \/ Read \/ Redirect

Spec == Init /\ [][Next]_vars

(***************************************************************************)
(* A server process: Server::new registers the local node in a fresh       *)
(* state, and Server::run gives the handler of every accepted connection   *)
(* that state and the local node id.                                       *)
(***************************************************************************)
\* resolve_node_id(port): the id of the local node
ServerNodeId == 1

Server_new ==
    [data |-> [ClusterState_new EXCEPT
                  !.nodes = insert(@, ServerNodeId,
                                   NodeInfo_new(ServerNodeId, LocalAddr, FALSE).info)],
     poisoned |-> FALSE]

InitServer ==
    /\ state = Server_new
    /\ mutations = 0
    /\ last_migration = [s \in 0..(TOTAL_SLOTS - 1) |-> NoMigration]
    /\ writer = None
    /\ task = [h \in ConcIds |-> Idle]
    /\ script_cache = EmptyMap
    /\ storage = StorageAdapter_new(Databases)
    /\ loaded = [script \in KnownTextSet |-> "never"]
    /\ evaluated = {}
    /\ engine = EmptyMap

\* the calls of the connections of the server: the handler has the local node id
ConnCalls(calls) == {c \in calls : c.self_id = Some(ServerNodeId)}

\* one command of one connection, a whole call
Serve(calls) ==
    \E c \in ConnCalls(calls) :
        /\ state' = Outcome(c).lk
        /\ mutations' = Counted(c)
        /\ last_migration' = Recorded(c)
        /\ UNCHANGED <<writer, task, script_cache, storage, loaded, evaluated, engine>>

ServerMeet == Bounded /\ Serve(MeetCalls)
ServerForget == Bounded /\ Serve(ForgetCalls)
ServerAddslots == Bounded /\ Serve(AddslotsCalls)
ServerDelslots == Bounded /\ Serve(DelslotsCalls)
ServerSetslot == Bounded /\ Serve(SetslotCalls)
ServerOther == Bounded /\ Serve(OtherCalls)
ServerRead == Bounded /\ Serve(ReadCalls)

NextServer ==
    \/ ServerMeet \/ ServerForget \/ ServerAddslots \/ ServerDelslots \/ ServerSetslot
    \/ ServerOther \/ ServerRead
SpecServer == InitServer /\ [][NextServer]_vars

(***************************************************************************)
(* Two handlers, with node ids 1 and 2, on the same state, each running    *)
(* one CLUSTER ADDSLOTS, step by step: the arguments without the lock,     *)
(* then self.state.write(), the busy check, the assignments one slot at a  *)
(* time, the epoch, and the return, which drops the guard.                 *)
(***************************************************************************)
\* RwLock::write returns once no other guard is held
can_write_unguarded(w) == TRUE
can_write(w) == w = None

At(h, pc) == task[h].pc = pc
Goto(h, pc) == [task EXCEPT ![h].pc = pc]
Return(h, r) == [task EXCEPT ![h].pc = "done", ![h].result = Some(r)]

ConcCall ==
    \E h \in ConcIds, args \in SlotLists :
        LET cmd == addslots_args(Some(h), args)
        IN /\ At(h, "idle")
           /\ task' = IF is_some(cmd.early)
                      THEN [Return(h, unwrap(cmd.early)) EXCEPT ![h].cmd = cmd]
                      ELSE [Goto(h, "lock") EXCEPT ![h].cmd = cmd]
           /\ UNCHANGED <<state, mutations, last_migration, writer, script_cache, storage, loaded, evaluated,
                          engine>>

ConcLock ==
    \E h \in ConcIds :
        /\ At(h, "lock")
        /\ can_write(writer)
        /\ IF state.poisoned
           THEN task' = Return(h, Panic) /\ UNCHANGED writer
           ELSE task' = Goto(h, "check") /\ writer' = Some(h)
        /\ UNCHANGED <<state, mutations, last_migration, script_cache, storage, loaded, evaluated, engine>>

ConcCheck ==
    \E h \in ConcIds :
        LET busy == first_busy(task[h].cmd.slots, state.data.slot_assignments, h)
        IN /\ At(h, "check")
           /\ IF is_some(busy)
              THEN /\ task' = Return(h, ErrSlot("InvalidArgument", "Slot {} is already busy",
                                                unwrap(busy)))
                   /\ writer' = None
              ELSE /\ task' = [Goto(h, "assign") EXCEPT ![h].i = 1]
                   /\ UNCHANGED writer
           /\ UNCHANGED <<state, mutations, last_migration, script_cache, storage, loaded, evaluated, engine>>

ConcAssign ==
    \E h \in ConcIds :
        /\ At(h, "assign")
        /\ task[h].i <= Len(task[h].cmd.slots)
        /\ state' = [state EXCEPT
                        !.data.slot_assignments[task[h].cmd.slots[task[h].i]] = Some(h)]
        /\ task' = [task EXCEPT ![h].i = @ + 1]
        /\ UNCHANGED <<mutations, last_migration, writer, script_cache, storage, loaded, evaluated, engine>>

ConcReturn ==
    \E h \in ConcIds :
        /\ At(h, "assign")
        /\ task[h].i > Len(task[h].cmd.slots)
        /\ state' = [state EXCEPT !.data.config_epoch = @ + 1]
        /\ task' = Return(h, Ok)
        /\ writer' = None
        /\ mutations' = mutations + 1
        /\ UNCHANGED <<last_migration, script_cache, storage, loaded, evaluated, engine>>

NextConc == ConcCall \/ ConcLock \/ ConcCheck \/ ConcAssign \/ ConcReturn

SpecConc == Init /\ [][NextConc]_vars

(***************************************************************************)
(* The same two handlers, each running one command after the other: a      *)
(* write (ADDSLOTS, DELSLOTS, FORGET of the other handler's node) under    *)
(* self.state.write(), changing one slot at a time, or a read (INFO,       *)
(* NODES, SLOTS) under self.state.read(), reading one slot at a time.      *)
(***************************************************************************)
\* RwLock::read returns once no write guard is held
can_read_unguarded(w) == TRUE
can_read(w) == w = None

\* the read guards held: one by each handler that is reading the slots
read_guards == {h \in ConcIds : At(h, "scan")}

AllSlots == [i \in 1..TOTAL_SLOTS |-> format_dec(i - 1)]
ObsArgs(h) ==
    {<<kw>> \o slots : kw \in {KW_ADDSLOTS, KW_DELSLOTS},
                       slots \in {AllSlots, <<AllSlots[1]>>, <<BadNumber>>}}
    \cup {<<KW_FORGET, format_040x(other)>> : other \in ConcIds \ {h}}
    \cup {<<KW_FORGET, UnknownIdToken>>, <<KW_INFO>>, <<KW_NODES>>, <<KW_SLOTS>>}

\* the handler's next command: its arguments, without the lock
ObsCall ==
    \E h \in ConcIds :
        \E args \in ObsArgs(h) :
            LET cmd == execute_args(Some(h), args)
            IN /\ At(h, "idle") \/ At(h, "done")
               /\ Bounded
               /\ task' = [task EXCEPT ![h] =
                              IF is_some(cmd.early)
                              THEN [Idle EXCEPT !.pc = "done", !.cmd = cmd, !.result = cmd.early]
                              ELSE [Idle EXCEPT
                                      !.pc = IF cmd.op \in {"INFO", "NODES", "SLOTS"}
                                             THEN "rlock" ELSE "lock",
                                      !.cmd = cmd]]
               /\ UNCHANGED <<state, mutations, last_migration, writer, script_cache, storage,
                              loaded, evaluated, engine>>

\* self.state.write().unwrap(): waits until no guard of either kind is held
ObsLock ==
    \E h \in ConcIds :
        /\ At(h, "lock")
        /\ can_write(writer) /\ read_guards = {}
        /\ IF state.poisoned
           THEN task' = Return(h, Panic) /\ UNCHANGED writer
           ELSE task' = Goto(h, "check") /\ writer' = Some(h)
        /\ UNCHANGED <<state, mutations, last_migration, script_cache, storage, loaded,
                       evaluated, engine>>

\* the validation under the guard; FORGET removes the node here, before its loop
ObsCheck ==
    \E h \in ConcIds :
        LET cmd == task[h].cmd
            failed ==
                CASE cmd.op = "ADDSLOTS" ->
                        LET busy == first_busy(cmd.slots, state.data.slot_assignments, h)
                        IN IF is_some(busy)
                           THEN Some(ErrSlot("InvalidArgument", "Slot {} is already busy",
                                             unwrap(busy)))
                           ELSE None
                  [] cmd.op = "DELSLOTS" ->
                        LET other == first_not_owned(cmd.slots, state.data.slot_assignments,
                                                     Some(h))
                        IN IF is_some(other)
                           THEN Some(ErrSlot("InvalidArgument",
                                             "Slot {} is not owned by this node", unwrap(other)))
                           ELSE None
                  [] cmd.op = "FORGET" ->
                        IF ~contains_key(state.data.nodes, cmd.node_id)
                        THEN Some(ErrStr("InvalidArgument", "Unknown node {}", cmd.node_id_str))
                        ELSE None
        IN /\ At(h, "check")
           /\ IF is_some(failed)
              THEN /\ task' = Return(h, unwrap(failed))
                   /\ writer' = None
                   /\ UNCHANGED state
              ELSE /\ task' = [Goto(h, "apply") EXCEPT ![h].i = 1]
                   /\ state' = IF cmd.op = "FORGET"
                               THEN [state EXCEPT !.data.nodes = remove(@, cmd.node_id)]
                               ELSE state
                   /\ UNCHANGED writer
           /\ UNCHANGED <<mutations, last_migration, script_cache, storage, loaded, evaluated,
                          engine>>

\* the number of turns of the command's loop over the slots
ObsTurns(cmd) == IF cmd.op = "FORGET" THEN TOTAL_SLOTS ELSE Len(cmd.slots)

\* one turn of the loop: one slot assigned, unassigned, or taken from the forgotten node
ObsApply ==
    \E h \in ConcIds :
        LET cmd == task[h].cmd
            i == task[h].i
        IN /\ At(h, "apply")
           /\ i <= ObsTurns(cmd)
           /\ state' =
                  CASE cmd.op = "ADDSLOTS" ->
                          [state EXCEPT !.data.slot_assignments[cmd.slots[i]] = Some(h)]
                    [] cmd.op = "DELSLOTS" ->
                          [state EXCEPT
                              !.data.slot_assignments[cmd.slots[i]] = None,
                              !.data.slot_states = remove(@, cmd.slots[i]),
                              !.data.migration_targets = remove(@, cmd.slots[i])]
                    [] cmd.op = "FORGET" ->
                          [state EXCEPT
                              !.data.slot_assignments[i - 1] =
                                  IF @ = Some(cmd.node_id) THEN None ELSE @]
           /\ task' = [task EXCEPT ![h].i = @ + 1]
           /\ UNCHANGED <<mutations, last_migration, writer, script_cache, storage, loaded,
                          evaluated, engine>>

\* the epoch and the return, which drops the write guard
ObsReturn ==
    \E h \in ConcIds :
        /\ At(h, "apply")
        /\ task[h].i > ObsTurns(task[h].cmd)
        /\ state' = [state EXCEPT !.data.config_epoch = @ + 1]
        /\ task' = Return(h, Ok)
        /\ writer' = None
        /\ mutations' = mutations + 1
        /\ UNCHANGED <<last_migration, script_cache, storage, loaded, evaluated, engine>>

\* self.state.read().unwrap(): waits until no write guard is held
ObsReadLock ==
    \E h \in ConcIds :
        /\ At(h, "rlock")
        /\ can_read(writer)
        /\ task' = IF state.poisoned THEN Return(h, Panic)
                   ELSE [Goto(h, "scan") EXCEPT ![h].i = 0]
        /\ UNCHANGED <<state, mutations, last_migration, writer, script_cache, storage, loaded,
                       evaluated, engine>>

\* the read of one slot of the vector, under the read guard
ObsScan ==
    \E h \in ConcIds :
        /\ At(h, "scan")
        /\ task[h].i < TOTAL_SLOTS
        /\ task' = [task EXCEPT ![h].seen = Append(@, state.data.slot_assignments[task[h].i]),
                                ![h].i = @ + 1]
        /\ UNCHANGED <<state, mutations, last_migration, writer, script_cache, storage, loaded,
                       evaluated, engine>>

\* the reply, built from the slots read, and the return, which drops the read guard
ObsReadReturn ==
    \E h \in ConcIds :
        LET seen == [state EXCEPT
                        !.data.slot_assignments = [s \in DOMAIN @ |-> task[h].seen[s + 1]]]
        IN /\ At(h, "scan")
           /\ task[h].i = TOTAL_SLOTS
           /\ task' = Return(h, execute_locked(Some(h), task[h].cmd, seen, FALSE).result)
           /\ UNCHANGED <<state, mutations, last_migration, writer, script_cache, storage,
                          loaded, evaluated, engine>>

NextObs == ObsCall \/ ObsLock \/ ObsCheck \/ ObsApply \/ ObsReturn
           \/ ObsReadLock \/ ObsScan \/ ObsReadReturn
SpecObs == Init /\ [][NextObs]_vars

\* CLUSTER KEYSLOT from the handlers of ConcIds, each keeping the key and the answer
(***************************************************************************)
(* The connections of a server, accepted and closed while commands run.    *)
(* The handler of a connection holds a handle on a cluster state:          *)
(* Server::run gives it Arc::clone(&self.cluster_state), the state of the  *)
(* server itself.                                                          *)
(***************************************************************************)
\* a handler with a cluster state of its own, as ClusterCommands::with_node_id makes
with_own_cluster_state(cluster_state) == [shared |-> FALSE, own |-> Server_new]

\* the handle a connection accepted by Server::run is given: the state of the server,
\* whatever it holds by then (own is not used)
with_shared_cluster_state(cluster_state) == [shared |-> TRUE, own |-> Server_new]

\* the cluster state behind the handle of connection h
ConnState(h) == IF task[h].seen.shared THEN state ELSE task[h].seen.own

MutationCalls ==
    ConnCalls(MeetCalls \cup ForgetCalls \cup AddslotsCalls \cup DelslotsCalls
              \cup SetslotCalls)
ObserverCalls == ConnCalls(InfoCalls \cup NodesCalls \cup SlotsCalls)

\* a call of connection h
ConnOutcome(h, c) == execute_locked(c.self_id, c.cmd, ConnState(h), c.overflow_checks)

\* listener.accept(): a handler for the connection, and a task that serves it
ConnAccept ==
    \E h \in ConcIds :
        /\ At(h, "idle")
        /\ task' = [task EXCEPT ![h] = [Idle EXCEPT !.pc = "open",
                                                    !.seen = with_shared_cluster_state(state)]]
        /\ UNCHANGED <<state, mutations, last_migration, writer, script_cache, storage, loaded,
                       evaluated, engine>>

\* the client goes away
ConnClose ==
    \E h \in ConcIds :
        /\ At(h, "open")
        /\ task' = [task EXCEPT ![h] = Idle]
        /\ UNCHANGED <<state, mutations, last_migration, writer, script_cache, storage, loaded,
                       evaluated, engine>>

\* MEET, FORGET, ADDSLOTS, DELSLOTS or SETSLOT on a connection, a whole call
ConnMutate ==
    \E h \in ConcIds, c \in MutationCalls :
        /\ At(h, "open")
        /\ Bounded /\ mutations < MaxEpoch
        /\ IF task[h].seen.shared
           THEN state' = ConnOutcome(h, c).lk /\ task' = task
           ELSE state' = state /\ task' = [task EXCEPT ![h].seen.own = ConnOutcome(h, c).lk]
        /\ mutations' = IF ConnOutcome(h, c).result = Ok THEN mutations + 1 ELSE mutations
        /\ last_migration' = IF task[h].seen.shared THEN Recorded(c) ELSE last_migration
        /\ UNCHANGED <<writer, script_cache, storage, loaded, evaluated, engine>>

\* INFO, NODES or SLOTS on a connection: the state is read, never written
ConnObserve ==
    \E h \in ConcIds, c \in ObserverCalls :
        /\ At(h, "open")
        /\ ConnOutcome(h, c).lk = ConnState(h)
        /\ UNCHANGED vars

NextConn == ConnAccept \/ ConnClose \/ ConnMutate \/ ConnObserve
SpecConn == InitServer /\ [][NextConn]_vars

KeyslotCall ==
    \E h \in ConcIds, args \in KeyslotArgs :
        LET cmd == execute_args(Some(h), <<KW_KEYSLOT>> \o args)
        IN /\ At(h, "idle")
           /\ task' = [Return(h, execute_locked(Some(h), cmd, state, FALSE).result)
                           EXCEPT ![h].cmd = cmd]
           /\ UNCHANGED <<state, mutations, last_migration, writer, script_cache, storage, loaded, evaluated,
                          engine>>

NextKeyslot == KeyslotCall

(***************************************************************************)
(* CLUSTER SLOTS on the slot vectors of WideSlots slots with two owners    *)
(***************************************************************************)
WideSlots == 4
SlotOwners == {None, Some(1), Some(2)}

InitSlots ==
    /\ \E assignments \in [0..(WideSlots - 1) -> SlotOwners] :
           state = [with_node_id(1) EXCEPT !.data.slot_assignments = assignments]
    /\ mutations = 0
    /\ last_migration = [s \in 0..(TOTAL_SLOTS - 1) |-> NoMigration]
    /\ writer = None
    /\ task = [h \in ConcIds |-> Idle]
    /\ script_cache = EmptyMap
    /\ storage = StorageAdapter_new(Databases)
    /\ loaded = [script \in KnownTextSet |-> "never"]
    /\ evaluated = {}
    /\ engine = EmptyMap

SlotsCall ==
    \E h \in {1} :
        /\ At(h, "idle")
        /\ task' = [Return(h, slots_of(state, WideSlots).result) EXCEPT ![h].cmd = Cmd("SLOTS")]
        /\ UNCHANGED <<state, mutations, last_migration, writer, script_cache, storage, loaded,
                       evaluated, engine>>

NextSlots == SlotsCall
SpecSlots == InitSlots /\ [][NextSlots]_vars
SpecKeyslot == Init /\ [][NextKeyslot]_vars

\* the script commands: each is one call, the cache under its lock for the whole of
\* LOAD, EXISTS and FLUSH
ScriptLoad ==
    \E args \in LoadArgs :
        LET done == script_load(args, script_cache)
        IN /\ script_cache' = done.cache
           /\ loaded' = IF done.result.kind = "Ok"
                         THEN [loaded EXCEPT ![from_utf8_lossy(args[1])] = "loaded"]
                         ELSE loaded
           /\ UNCHANGED <<storage, evaluated, state, mutations, last_migration, writer, task, engine>>

ScriptExists ==
    \E args \in ExistsArgs :
        /\ script_cache' = script_exists(args, script_cache).cache
        /\ UNCHANGED <<loaded, evaluated, storage, state, mutations, last_migration, writer,
                       task, engine>>

ScriptFlush ==
    \E args \in FlushArgs :
        /\ script_cache' = script_flush(args, script_cache).cache
        /\ loaded' = [script \in KnownTextSet |-> "flushed"]
        /\ evaluated' = {}
        /\ UNCHANGED <<storage, state, mutations, last_migration, writer, task, engine>>

Eval ==
    \E script \in Scripts, rest \in EvalRest, db_index \in Databases :
        /\ storage' = eval(<<script>> \o rest, db_index, storage).storage
        /\ evaluated' = IF eval(<<script>> \o rest, db_index, storage).result.kind = "Ok"
                        THEN evaluated \cup {from_utf8_lossy(script)}
                        ELSE evaluated
        /\ UNCHANGED <<script_cache, loaded, state, mutations, last_migration, writer, task, engine>>

Evalsha ==
    \E sha1 \in Shas, rest \in EvalRest, db_index \in Databases :
        /\ storage' = evalsha(<<sha1>> \o rest, db_index, script_cache, storage).storage
        /\ UNCHANGED <<script_cache, loaded, evaluated, state, mutations, last_migration,
                       writer, task, engine>>

\* EVAL of a script that calls the host
EvalHost ==
    \E script \in HostScripts, rest \in HostRest, db_index \in Databases :
        /\ storage' = eval(<<script>> \o rest, db_index, storage).storage
        /\ evaluated' = IF eval(<<script>> \o rest, db_index, storage).result.kind = "Ok"
                        THEN evaluated \cup ({from_utf8_lossy(script)} \cap KnownTextSet)
                        ELSE evaluated
        /\ UNCHANGED <<script_cache, loaded, state, mutations, last_migration, writer, task, engine>>

NextHost == EvalHost
SpecHost == Init /\ [][NextHost]_vars

\* the commands on the engine, each a whole call
EngineSet ==
    \E k \in EngineKeys, v \in EngineValues :
        /\ engine' = engine_set(engine, <<k, v>>).engine
        /\ UNCHANGED <<state, mutations, last_migration, writer, task, script_cache, storage,
                       loaded, evaluated>>

EngineRpush ==
    \E k \in EngineKeys, v \in EngineValues :
        /\ contains_key(engine, k) /\ engine[k].type = "list"
               => Len(engine[k].list) < MaxItems
        /\ engine' = engine_rpush(engine, <<k, v>>).engine
        /\ UNCHANGED <<state, mutations, last_migration, writer, task, script_cache, storage,
                       loaded, evaluated>>

EngineHset ==
    \E k \in EngineKeys, i \in 1..Len(HashFields), v \in EngineValues :
        /\ engine' = engine_hset(engine, <<k, HashFields[i], v>>).engine
        /\ UNCHANGED <<state, mutations, last_migration, writer, task, script_cache, storage,
                       loaded, evaluated>>

EngineDel ==
    \E k \in EngineKeys :
        /\ engine' = engine_del(engine, <<k>>).engine
        /\ UNCHANGED <<state, mutations, last_migration, writer, task, script_cache, storage,
                       loaded, evaluated>>

EngineDump ==
    \E k \in EngineKeys :
        /\ engine' = dump(engine, <<k>>).engine
        /\ UNCHANGED <<state, mutations, last_migration, writer, task, script_cache, storage,
                       loaded, evaluated>>

EngineRestore ==
    \E args \in RestoreArgs(engine) :
        /\ engine' = restore(engine, args).engine
        /\ UNCHANGED <<state, mutations, last_migration, writer, task, script_cache, storage,
                       loaded, evaluated>>

NextDump == EngineSet \/ EngineRpush \/ EngineHset \/ EngineDel \/ EngineDump \/ EngineRestore
SpecDump == Init /\ [][NextDump]_vars

(***************************************************************************)
(* EVALSHA step by step in one session, next to SCRIPT LOAD, EXISTS and    *)
(* FLUSH from other sessions: the arguments, the lookup under the read     *)
(* lock of the cache with the clone of the source, the drop of the guard,  *)
(* and the interpreter.                                                    *)
(***************************************************************************)
\* evalsha, lines 71-85: the error of the argument validation, if any
evalsha_checked(args) ==
    IF Len(args) < 2 THEN Some(Err("WrongArgCount", "EVALSHA"))
    ELSE LET numkeys == parse_usize(from_utf8_lossy(args[2]))
         IN IF ~is_some(numkeys)
            THEN Some(Err("InvalidArgument", "numkeys must be a number"))
            ELSE IF Len(args) < 2 + unwrap(numkeys)
            THEN Some(Err("InvalidArgument",
                          "Number of keys doesn't match numkeys parameter"))
            ELSE None

\* evalsha, lines 87-96: cache.get(&sha1) and the clone of the source
evalsha_lookup(args, cache) ==
    IF contains_key(cache, from_utf8_lossy(args[1]))
    THEN Some(cache[from_utf8_lossy(args[1])])
    ELSE None

\* a guard that is not dropped before the interpreter runs
drop_forgotten(t) == t

\* drop(cache): the read guard is released
drop(t) == [t EXCEPT !.guard = FALSE]

\* evalsha, lines 99-109: the keys, the arguments and the interpreter on the clone
evalsha_run(script, args, db_index, store) ==
    LET numkeys == unwrap(parse_usize(from_utf8_lossy(args[2])))
        keys == [i \in 1..numkeys |-> from_utf8_lossy(args[2 + i])]
        argv == [i \in 1..(Len(args) - 2 - numkeys) |-> from_utf8_lossy(args[2 + numkeys + i])]
    IN execute_script(script, keys, argv, db_index, store)

\* the session that runs EVALSHA, and its arguments
ShaIds == {1}
ShaArgs ==
    {<<sha1>> \o rest :
        sha1 \in {calculate_sha1(<<LUA_SET>>), calculate_sha1(<<LUA_GET>>), UnknownSha},
        rest \in {<<<<"1">>, <<"k">>, <<"v">>>>, <<<<"1">>, <<"k">>, <<"w">>>>, <<<<"x">>>>}}

\* the read guards held on the script cache
cache_guards == {h \in ShaIds : task[h].guard}

ShaCall ==
    \E h \in ShaIds, args \in ShaArgs, db_index \in Databases :
        /\ At(h, "idle") \/ At(h, "done")
        /\ task' = [task EXCEPT ![h] =
                       IF is_some(evalsha_checked(args))
                       THEN [Idle EXCEPT !.pc = "done", !.args = args, !.db_index = db_index,
                                         !.result = evalsha_checked(args)]
                       ELSE [Idle EXCEPT !.pc = "lookup", !.args = args,
                                         !.db_index = db_index]]
        /\ UNCHANGED <<state, mutations, last_migration, writer, script_cache, storage, loaded,
                       evaluated, engine>>

\* self.script_cache.read(), the lookup and the clone
ShaLookup ==
    \E h \in ShaIds :
        LET found == evalsha_lookup(task[h].args, script_cache)
        IN /\ At(h, "lookup")
           /\ task' = [task EXCEPT ![h] =
                          IF is_some(found)
                          THEN [@ EXCEPT !.pc = "cloned", !.seen = unwrap(found),
                                         !.guard = TRUE]
                          ELSE [@ EXCEPT
                                  !.pc = "done",
                                  !.result = Some(Err("InvalidArgument",
                                                      "NOSCRIPT No matching script. Use EVAL."))]]
           /\ UNCHANGED <<state, mutations, last_migration, writer, script_cache, storage,
                          loaded, evaluated, engine>>

ShaDrop ==
    \E h \in ShaIds :
        /\ At(h, "cloned")
        /\ task' = [task EXCEPT ![h] = [drop(@) EXCEPT !.pc = "run"]]
        /\ UNCHANGED <<state, mutations, last_migration, writer, script_cache, storage, loaded,
                       evaluated, engine>>

\* the interpreter on the clone, and the return, which drops what guard is left
ShaRun ==
    \E h \in ShaIds :
        LET ran == evalsha_run(task[h].seen, task[h].args, task[h].db_index, storage)
        IN /\ At(h, "run")
           /\ storage' = ran.storage
           /\ task' = [task EXCEPT ![h].pc = "done", ![h].result = Some(ran.result),
                                   ![h].guard = FALSE]
           /\ UNCHANGED <<state, mutations, last_migration, writer, script_cache, loaded,
                          evaluated, engine>>

\* SCRIPT LOAD and SCRIPT FLUSH from another session: self.script_cache.write() waits
\* until no read guard is held; SCRIPT EXISTS takes the read lock and does not wait
ShaLoad == cache_guards = {} /\ ScriptLoad
ShaFlush == cache_guards = {} /\ ScriptFlush
ShaExists == ScriptExists

NextSha == ShaCall \/ ShaLookup \/ ShaDrop \/ ShaRun \/ ShaLoad \/ ShaFlush \/ ShaExists
SpecSha == Init /\ [][NextSha]_vars

(***************************************************************************)
(* EVAL of the script that sets KEYS[1] and returns the GET of it, one     *)
(* host call at a time, next to the scripts of another session. Each host  *)
(* call takes the locks of the storage for itself; execute_script holds    *)
(* nothing between two calls.                                              *)
(***************************************************************************)
IsoIds == {1}
IsoArgs == {<<<<LUA_SET_GET>>, <<"1">>, <<"k">>, v>> : v \in EngineValues}

\* the host calls of the script, in order, on the storage of the moment
iso_set(t, store) ==
    redis_call(store, t.db_index,
               <<LuaString(KW_SET), lua_index(<<from_utf8_lossy(t.args[3])>>, 1),
                 lua_index(<<from_utf8_lossy(t.args[4])>>, 1)>>, TRUE)
iso_get(t, store) ==
    redis_call(store, t.db_index,
               <<LuaString(KW_GET), lua_index(<<from_utf8_lossy(t.args[3])>>, 1)>>, TRUE)

IsoCall ==
    \E h \in IsoIds, args \in IsoArgs, db_index \in Databases :
        /\ At(h, "idle") \/ At(h, "done")
        /\ task' = [task EXCEPT ![h] = [Idle EXCEPT !.pc = "first", !.args = args,
                                                    !.db_index = db_index]]
        /\ UNCHANGED <<state, mutations, last_migration, writer, script_cache, storage, loaded,
                       evaluated, engine>>

\* redis.call('SET', KEYS[1], ARGV[1])
IsoFirst ==
    \E h \in IsoIds :
        /\ At(h, "first")
        /\ storage' = iso_set(task[h], storage).storage
        /\ task' = Goto(h, "second")
        /\ UNCHANGED <<state, mutations, last_migration, writer, script_cache, loaded,
                       evaluated, engine>>

\* return redis.call('GET', KEYS[1])
IsoSecond ==
    \E h \in IsoIds :
        /\ At(h, "second")
        /\ storage' = iso_get(task[h], storage).storage
        /\ task' = Return(h, lua_to_resp(iso_get(task[h], storage).value))
        /\ UNCHANGED <<state, mutations, last_migration, writer, script_cache, loaded,
                       evaluated, engine>>

\* another session: EVAL of the script that sets a key, a whole call
IsoOther ==
    \E v \in EngineValues, db_index \in Databases :
        /\ storage' = eval(<<<<LUA_SET>>, <<"1">>, <<"k">>, v>>, db_index, storage).storage
        /\ UNCHANGED <<state, mutations, last_migration, writer, task, script_cache, loaded,
                       evaluated, engine>>

NextIso == IsoCall \/ IsoFirst \/ IsoSecond \/ IsoOther
SpecIso == Init /\ [][NextIso]_vars

(***************************************************************************)
(* SCAN cursor [COUNT count] on an unchanging database, and the loop of a  *)
(* client that follows the returned cursor until it is 0 again, as         *)
(* test_scan_iteration runs it. The command is modelled from that test:    *)
(* the cursor is a position in the keys of the database, taken in an       *)
(* order that does not change while the database does not.                 *)
(***************************************************************************)
MaxScanKeys == 5
MaxScanCount == 2

KW_COUNT == <<"C", "O", "U", "N", "T">>
\* format!("key:{}", i)
ScanKey(i) == <<"k", "e", "y", ":">> \o format_dec(i)

\* the keys of a database, in the order the iteration takes them
scan_keys(store, db_index) ==
    LET present == {i \in 0..(MaxScanKeys - 1) : contains_key(store[db_index], ScanKey(i))}
    IN [j \in 1..Cardinality(present) |->
           ScanKey(CHOOSE i \in present : Cardinality({x \in present : x < i}) = j - 1)]

\* SCAN that ends the iteration when one more key is left
scan_page_ends_early(cursor, count, len) ==
    IF cursor + count + 1 >= len THEN 0 ELSE cursor + count

\* the cursor after the keys of cursor+1 .. cursor+count: 0 when no key is left
scan_page(cursor, count, len) == IF cursor + count >= len THEN 0 ELSE cursor + count

\* SCAN cursor COUNT count: [next cursor, [key ...]]
scan(store, db_index, args) ==
    LET cursor == parse_usize(from_utf8_lossy(args[1]))
        count == parse_usize(from_utf8_lossy(args[3]))
        keys == scan_keys(store, db_index)
    IN IF Len(args) # 3 \/ to_uppercase(args[2]) # KW_COUNT \/ ~is_some(cursor)
          \/ ~is_some(count) \/ unwrap(count) < 1
       THEN Err("InvalidArgument", "SCAN")
       ELSE Array(<<BulkString(format_dec(scan_page(unwrap(cursor), unwrap(count), Len(keys)))),
                    Array([j \in 1..(IF unwrap(cursor) + unwrap(count) >= Len(keys)
                                     THEN Len(keys) - unwrap(cursor) ELSE unwrap(count)) |->
                              BulkString(keys[unwrap(cursor) + j])])>>)

\* the database of the test: some of the keys key:0 .. key:MaxScanKeys-1, set before
\* the iteration starts
InitScan ==
    /\ \E present \in SUBSET (0..(MaxScanKeys - 1)) :
           storage = [db \in Databases |->
                         IF db = 0
                         THEN [k \in {ScanKey(i) : i \in present} |-> <<"v">>]
                         ELSE EmptyMap]
    /\ state = with_node_id(1)
    /\ mutations = 0
    /\ last_migration = [s \in 0..(TOTAL_SLOTS - 1) |-> NoMigration]
    /\ writer = None
    /\ task = [h \in ConcIds |-> Idle]
    /\ script_cache = EmptyMap
    /\ loaded = [script \in KnownTextSet |-> "never"]
    /\ evaluated = {}
    /\ engine = EmptyMap

\* one turn of the loop of the test: SCAN with the cursor of the last reply (0 at the
\* start) and any count, the next cursor parsed from the reply, the keys collected
ScanCall ==
    \E count \in 1..MaxScanCount :
        \E reply \in {scan(storage, 0, <<format_dec(task[1].i), KW_COUNT, format_dec(count)>>)} :
            \E cursor \in {unwrap(parse_usize(from_utf8_lossy(reply.s[1].s)))} :
                /\ At(1, "idle") \/ At(1, "iterating")
                /\ task' = [task EXCEPT
                               ![1].pc = IF cursor = 0 THEN "done" ELSE "iterating",
                               ![1].i = cursor,
                               ![1].seen = @ \o [j \in 1..Len(reply.s[2].s) |->
                                                    from_utf8_lossy(reply.s[2].s[j].s)]]
                /\ UNCHANGED <<state, mutations, last_migration, writer, script_cache,
                               storage, loaded, evaluated, engine>>

NextScan == ScanCall
\* the client calls again as long as the cursor is not 0
SpecScan == InitScan /\ [][NextScan]_vars /\ WF_vars(ScanCall)

NextScript == ScriptLoad \/ ScriptExists \/ ScriptFlush \/ Eval \/ Evalsha
SpecScript == Init /\ [][NextScript]_vars

(***************************************************************************)
(* Properties                                                              *)
(***************************************************************************)
nodes == state.data.nodes
slot_assignments == state.data.slot_assignments
slot_states == state.data.slot_states
migration_targets == state.data.migration_targets
config_epoch == state.data.config_epoch

SlotsOf(c) == {c.cmd.slots[i] : i \in 1..Len(c.cmd.slots)}

\* C1: after any sequence of MEET/FORGET/ADDSLOTS/DELSLOTS/SETSLOT through handlers
\* sharing one ClusterState, the slot vector has exactly TOTAL_SLOTS entries and the
\* owner of every assigned slot is a key of the node map.
C1_SlotOwnersAreNodes ==
    /\ DOMAIN slot_assignments = 0..(TOTAL_SLOTS - 1)
    /\ \A s \in DOMAIN slot_assignments :
           is_some(slot_assignments[s]) => contains_key(nodes, unwrap(slot_assignments[s]))

\* a parsed ADDSLOTS request of a handler with a node id: the slots of the request that
\* another node owns
BusySlots(c) ==
    {s \in SlotsOf(c) : is_some(slot_assignments[s]) /\ slot_assignments[s] # c.self_id}

AddslotsAtomic(c) ==
    LET out == Outcome(c)
    IN IF BusySlots(c) # {}
       THEN /\ out.result.kind = "InvalidArgument"
            /\ out.result.msg = "Slot {} is already busy"
            /\ out.result.n \in BusySlots(c)
            /\ out.lk.data.slot_assignments = slot_assignments
            /\ out.lk.data.config_epoch = config_epoch
       ELSE \A s \in SlotsOf(c) : out.lk.data.slot_assignments[s] = c.self_id

\* C2: ADDSLOTS is atomic. If a slot of the request is owned by a node other than the
\* caller, the command fails with 'Slot <n> is already busy', no slot changes owner and
\* the epoch is unchanged; otherwise every slot of the request ends owned by the caller.
C2_AddslotsAtomic ==
    \A c \in AddslotsCalls : c.cmd.early = None => AddslotsAtomic(c)

\* C3: every CLUSTER call that returns an error leaves the node map, the slot vector,
\* the migration state and the epoch as they were before the call. (Stated on the
\* state before the call, for every call the handlers can make in it.)
C3_ErrorsChangeNothing ==
    Bounded =>
        \A c \in Calls :
            LET out == Outcome(c)
            IN IsErr(out.result) => out.lk.data = state.data

\* a state where calls of each kind of error can be made, on a state that is not the
\* initial one: an unknown node, a busy slot and a slot not owned
C3_Witness ==
    /\ Bounded
    /\ config_epoch > 0
    /\ \E c \in ForgetCalls : Outcome(c).result.msg = "Unknown node {}"
    /\ \E c \in AddslotsCalls : Outcome(c).result.msg = "Slot {} is already busy"
    /\ \E c \in DelslotsCalls : Outcome(c).result.msg = "Slot {} is not owned by this node"
    /\ \E c \in SetslotCalls : Outcome(c).result.msg = "Unknown node {}"
    /\ \E c \in MeetCalls : Outcome(c).result.msg = "Invalid port number"

\* C4: every successful MEET, FORGET, ADDSLOTS, DELSLOTS or SETSLOT raises the epoch by
\* one and no call lowers it, so that after N successful mutations by the handlers
\* sharing the state the epoch is its initial value (0) plus N.
C4_EpochCountsMutations ==
    /\ config_epoch = mutations
    /\ Bounded =>
           \A c \in Calls :
               LET out == Outcome(c)
               IN out.lk.data.config_epoch =
                      IF out.result = Ok THEN config_epoch + 1 ELSE config_epoch

\* MaxEpoch mutations have succeeded, of at least three handlers' kinds: nodes were
\* added, slots assigned, and migration state recorded
C4_Witness ==
    /\ mutations = MaxEpoch
    /\ Cardinality(DOMAIN nodes) > 1
    /\ \E s \in DOMAIN slot_assignments : is_some(slot_assignments[s])
    /\ DOMAIN slot_states # {}

\* the two concurrent ADDSLOTS calls have returned, both had parsed their slots
BothReturned == \A h \in ConcIds : At(h, "done") /\ task[h].cmd.early = None
ConcSlots(h) == {task[h].cmd.slots[i] : i \in 1..Len(task[h].cmd.slots)}
Overlap == ConcSlots(1) \cap ConcSlots(2)
Succeeded(h) == task[h].result = Some(Ok)
InCriticalSection(h) == At(h, "check") \/ At(h, "assign")

\* C5: two handlers with different node ids run ADDSLOTS concurrently on overlapping
\* slot sets: at most one of the two succeeds, after both have returned every slot of
\* the overlap is owned by the one that succeeded, and one command's busy check and
\* assignments never interleave with the other's.
C5_ConcurrentAddslots ==
    /\ ~(InCriticalSection(1) /\ InCriticalSection(2))
    /\ (BothReturned /\ Overlap # {}) =>
           /\ ~(Succeeded(1) /\ Succeeded(2))
           /\ \A h \in ConcIds :
                  Succeeded(h) => \A s \in Overlap : slot_assignments[s] = Some(h)

\* both have returned, on overlapping requests of more than one slot each that are not
\* the same request; one succeeded and the other was told the slot is busy
C5_Witness ==
    /\ BothReturned
    /\ Overlap # {}
    /\ ConcSlots(1) # ConcSlots(2)
    /\ Succeeded(2)
    /\ task[1].result # None
    /\ unwrap(task[1].result).msg = "Slot {} is already busy"
    /\ Cardinality(ConcSlots(1)) > 1

\* C6: every node id recorded in a slot's migration state is a key of the node map,
\* after any sequence of commands, CLUSTER FORGET of that node included.
C6_MigrationNodesAreNodes ==
    \A s \in DOMAIN migration_targets : contains_key(nodes, migration_targets[s])

\* C7: SETSLOT <slot> MIGRATING <id> succeeds only when the local node owns the slot,
\* SETSLOT <slot> IMPORTING <id> only when it does not; otherwise the command is
\* rejected and records no migration state.
C7_MigrationChecksOwnership ==
    \A c \in SetslotCalls :
        LET local == is_some(c.self_id) /\ slot_assignments[c.cmd.slot] = c.self_id
        IN /\ (c.cmd.early = None /\ c.cmd.op = "MIGRATING" /\ ~local) =>
                  /\ IsErr(Outcome(c).result)
                  /\ Outcome(c).lk.data = state.data
           /\ (c.cmd.early = None /\ c.cmd.op = "IMPORTING" /\ local) =>
                  /\ IsErr(Outcome(c).result)
                  /\ Outcome(c).lk.data = state.data

\* C8: a slot has a migration state exactly when the last successful command among
\* SETSLOT s MIGRATING / IMPORTING / STABLE / NODE and DELSLOTS listing s was a MIGRATING
\* or an IMPORTING, and then the state and the node id are that command's; MEET, FORGET
\* and ADDSLOTS neither create nor clear one.
C8_MigrationStateIsLastCommand ==
    /\ \A s \in DOMAIN last_migration :
           IF last_migration[s] = NoMigration
           THEN ~contains_key(slot_states, s) /\ ~contains_key(migration_targets, s)
           ELSE /\ contains_key(slot_states, s) /\ contains_key(migration_targets, s)
                /\ slot_states[s] = last_migration[s].kind
                /\ migration_targets[s] = last_migration[s].node_id
    /\ Bounded =>
           \A c \in MeetCalls \cup ForgetCalls \cup AddslotsCalls :
               LET out == Outcome(c)
               IN /\ out.lk.data.slot_states = slot_states
                  /\ out.lk.data.migration_targets = migration_targets

\* one slot is migrating to a node that is in the node map and that FORGET can remove,
\* the other was migrating and is stable again
C8_Witness ==
    /\ Bounded
    /\ \E s \in DOMAIN slot_states :
           /\ slot_states[s] = "Migrating"
           /\ contains_key(nodes, migration_targets[s])
           /\ migration_targets[s] # 1
    /\ \E s \in DOMAIN last_migration :
           last_migration[s] = NoMigration /\ mutations = MaxEpoch - 1

\* C9: after a successful FORGET of node n, n is not in the node map and owns no slot;
\* every other NodeInfo and every slot owned by another node are as before.
C9_ForgetRemovesOnlyThatNode ==
    \A c \in ForgetCalls :
        Outcome(c).result = Ok =>
            LET n == c.cmd.node_id
                after == Outcome(c).lk.data
            IN /\ ~contains_key(after.nodes, n)
               /\ \A s \in DOMAIN after.slot_assignments : after.slot_assignments[s] # Some(n)
               /\ DOMAIN after.nodes = DOMAIN nodes \ {n}
               /\ \A m \in DOMAIN after.nodes : after.nodes[m] = nodes[m]
               /\ DOMAIN after.slot_assignments = DOMAIN slot_assignments
               /\ \A s \in DOMAIN slot_assignments :
                      slot_assignments[s] # Some(n) =>
                          after.slot_assignments[s] = slot_assignments[s]

\* a FORGET that succeeds on a node that owns a slot, while another node owns another
C9_Witness ==
    /\ Bounded
    /\ \E c \in ForgetCalls :
           /\ Outcome(c).result = Ok
           /\ \E s, r \in DOMAIN slot_assignments :
                  /\ slot_assignments[s] = Some(c.cmd.node_id)
                  /\ is_some(slot_assignments[r])
                  /\ slot_assignments[r] # Some(c.cmd.node_id)

\* CLUSTER FORGET <id> where <id> reads as the handler's own node id
ForgetSelfCalls ==
    {c \in ForgetCalls :
        /\ is_some(c.self_id)
        /\ Len(c.args) = 2
        /\ from_str_radix16(c.args[2]) = c.self_id}

\* C10: CLUSTER FORGET with the local node's own id fails with "I tried hard but I
\* can't forget myself" in every cluster state, and the local node stays in the node
\* map with its slots.
C10_ForgetSelfFails ==
    \A c \in ForgetSelfCalls :
        /\ Outcome(c).result =
               Err("InvalidArgument", "I tried hard but I can't forget myself")
        /\ contains_key(nodes, unwrap(c.self_id)) =>
               /\ contains_key(Outcome(c).lk.data.nodes, unwrap(c.self_id))
               /\ Outcome(c).lk.data.nodes[unwrap(c.self_id)] = nodes[unwrap(c.self_id)]
        /\ \A s \in DOMAIN slot_assignments :
               slot_assignments[s] = c.self_id =>
                   Outcome(c).lk.data.slot_assignments[s] = c.self_id

\* the local node is in the node map beside another node, and owns a slot, when it is
\* asked to forget itself
C10_Witness ==
    /\ Bounded
    /\ \E c \in ForgetSelfCalls :
           /\ contains_key(nodes, unwrap(c.self_id))
           /\ Cardinality(DOMAIN nodes) > 1
           /\ \E s \in DOMAIN slot_assignments : slot_assignments[s] = c.self_id

\* the slots of a parsed DELSLOTS request that a node other than the caller owns
ForeignSlots(c) ==
    {s \in SlotsOf(c) : is_some(slot_assignments[s]) /\ slot_assignments[s] # c.self_id}

\* the migration state of slot s in cluster state d: the entries of the two maps
MigrationOf(d, s) ==
    <<IF contains_key(d.slot_states, s) THEN Some(d.slot_states[s]) ELSE None,
      IF contains_key(d.migration_targets, s) THEN Some(d.migration_targets[s]) ELSE None>>

DelslotsContract(c) ==
    LET out == Outcome(c)
        after == out.lk.data
    IN IF is_some(c.self_id) /\ ForeignSlots(c) # {}
       THEN /\ out.result.kind = "InvalidArgument"
            /\ out.result.msg = "Slot {} is not owned by this node"
            /\ out.result.n \in ForeignSlots(c)
            /\ after = state.data
       ELSE /\ \A s \in SlotsOf(c) :
                   /\ after.slot_assignments[s] = None
                   /\ MigrationOf(after, s) = <<None, None>>
            /\ \A s \in DOMAIN slot_assignments \ SlotsOf(c) :
                   /\ after.slot_assignments[s] = slot_assignments[s]
                   /\ MigrationOf(after, s) = MigrationOf(state.data, s)

\* C11: DELSLOTS fails with 'Slot <n> is not owned by this node', changing nothing, if
\* the local node id is set and a listed slot is owned by a different node; otherwise
\* every listed slot ends unassigned with no migration state and no unlisted slot
\* changes.
C11_DelslotsContract ==
    \A c \in DelslotsCalls : c.cmd.early = None => DelslotsContract(c)

SetslotNodeContract(c) ==
    LET out == Outcome(c)
        after == out.lk.data
        n == c.cmd.node_id
        s == c.cmd.slot
    IN IF contains_key(nodes, n) \/ c.self_id = Some(n)
       THEN /\ out.result = Ok
            /\ after.slot_assignments[s] = Some(n)
            /\ MigrationOf(after, s) = <<None, None>>
       ELSE /\ out.result = ErrStr("InvalidArgument", "Unknown node {}", c.cmd.node_id_str)
            /\ after.slot_assignments[s] = slot_assignments[s]
            /\ MigrationOf(after, s) = MigrationOf(state.data, s)

\* C12: SETSLOT s NODE n succeeds exactly when n is in the node map or is the local
\* node id; then s is owned by n and has no migration state; otherwise it fails with
\* 'Unknown node' and s keeps its owner and its migration state.
C12_SetslotNodeContract ==
    \A c \in SetslotCalls : (c.cmd.early = None /\ c.cmd.op = "NODE") => SetslotNodeContract(c)

\* the value of the line called name in the text of CLUSTER INFO
InfoValue(lines, name) == lines[CHOOSE i \in 1..Len(lines) : lines[i].name = name].value

\* C13: CLUSTER INFO reports cluster_state:ok exactly when all TOTAL_SLOTS slots are
\* assigned and the node map is not empty, cluster_state:fail otherwise, and
\* cluster_slots_assigned is the number of assigned slots, in every reachable state.
C13_InfoReportsState ==
    \A c \in InfoCalls :
        LET r == Outcome(c).result
            assigned == {s \in DOMAIN slot_assignments : is_some(slot_assignments[s])}
        IN /\ r.msg = "bulk"
           /\ InfoValue(r.s, "cluster_state") =
                  IF assigned = DOMAIN slot_assignments /\ DOMAIN nodes # {}
                  THEN <<"o", "k">> ELSE <<"f", "a", "i", "l">>
           /\ parse_u16(InfoValue(r.s, "cluster_slots_assigned")) = Some(Cardinality(assigned))

\* C14: for every entry [start, end, node] that CLUSTER SLOTS returns, start <= end and
\* every slot of start..end is owned, in the slot vector, by the node id of the entry.
C14_SlotsEntriesAreOwned ==
    \A c \in SlotsCalls :
        LET r == Outcome(c).result
        IN r.msg = "array" =>
               \A i \in 1..Len(r.s) :
                   /\ r.s[i].start <= r.s[i].end
                   /\ \A s \in r.s[i].start..r.s[i].end :
                          /\ s \in DOMAIN slot_assignments
                          /\ is_some(slot_assignments[s])
                          /\ format_040x(unwrap(slot_assignments[s])) = r.s[i].node.id

\* CLUSTER SLOTS returns entries for two different nodes
C14_Witness ==
    /\ ~state.poisoned
    /\ \E c \in SlotsCalls :
           LET r == Outcome(c).result
           IN /\ r.msg = "array"
              /\ \E i, j \in 1..Len(r.s) : r.s[i].node.id # r.s[j].node.id

\* C15: after any sequence of commands, the output of CLUSTER NODES has exactly one line
\* for every node of the node map, and the line begins with the node's 40-hex id.
C15_NodesListsEveryNode ==
    \A c \in NodesCalls :
        LET r == Outcome(c).result
        IN /\ r.msg = "bulk"
           /\ \A id \in DOMAIN nodes :
                  Cardinality({i \in 1..Len(r.s) : r.s[i][1] = format_040x(id)}) = 1

\* the owner of the slot of the key of call c, and whether it is a node of the map
\* other than the handler's own
OwnerOf(c) == slot_assignments[c.slot]
OwnedElsewhere(c) ==
    /\ is_some(OwnerOf(c))
    /\ OwnerOf(c) # c.self_id
    /\ contains_key(nodes, unwrap(OwnerOf(c)))
OwnedLocally(c) == is_some(c.self_id) /\ OwnerOf(c) = c.self_id

\* C16: for a key whose slot is owned by a node other than the local one, check_redirect
\* returns the slot and the data address of the owner in the node map, which moved_error
\* renders as 'MOVED <slot> <addr>'.
C16_MovedForForeignSlot ==
    \A c \in RedirectCalls :
        OwnedElsewhere(c) =>
            LET addr == nodes[unwrap(OwnerOf(c))].addr
                r == check_redirect(c, local_slots(c))
            IN /\ r = Some(<<c.slot, addr>>)
               /\ moved_error(unwrap(r)[1], unwrap(r)[2]).s =
                      <<"M", "O", "V", "E", "D", " ">> \o format_dec(c.slot) \o <<" ">> \o addr

\* C17: for a key whose slot is owned by the local node, check_redirect serves locally
\* (no redirect) when the slot is not Migrating or the key exists locally, and answers
\* the slot and the migration target when the slot is Migrating and the key is absent.
C17_LocalSlotDecision ==
    \A c \in RedirectCalls :
        OwnedLocally(c) =>
            LET migrating == /\ contains_key(slot_states, c.slot)
                             /\ slot_states[c.slot] = "Migrating"
                             /\ contains_key(migration_targets, c.slot)
                r == check_redirect(c, local_slots(c))
            IN IF ~migrating \/ c.key_exists THEN r = None
               ELSE /\ is_some(r)
                    /\ unwrap(r)[1] = c.slot
                    /\ contains_key(nodes, migration_targets[c.slot]) =>
                           unwrap(r)[2] = nodes[migration_targets[c.slot]].addr

\* the hash-tag bodies of a key: the bytes between the first '{' and the first '}' after
\* it, when there is at least one byte (a set of at most one element)
TagBodies(k) ==
    {SubSeq(k, i + 1, j - 1) : <<i, j>> \in
        {p \in (1..Len(k)) \X (1..Len(k)) :
            /\ k[p[1]] = "{" /\ \A x \in 1..(p[1] - 1) : k[x] # "{"
            /\ k[p[2]] = "}" /\ p[2] > p[1] + 1
            /\ \A x \in (p[1] + 1)..(p[2] - 1) : k[x] # "}"}}

Answered(h) == /\ task[h].pc = "done"
               /\ task[h].cmd.op = "KEYSLOT"
               /\ unwrap(task[h].result).kind # "WrongArgCount"

\* C18: for keys k1 and k2 with the same non-empty hash-tag body b, CLUSTER KEYSLOT
\* returns the same slot for k1, for k2 and for the key b itself, and the slot is in
\* 0..TOTAL_SLOTS-1.
C18_KeyslotHashTag ==
    \A h1, h2 \in ConcIds :
        (Answered(h1) /\ Answered(h2)) =>
            \A b \in TagBodies(task[h1].cmd.key) :
                (b \in TagBodies(task[h2].cmd.key) \/ b = task[h2].cmd.key) =>
                    /\ unwrap(task[h1].result).msg = "integer"
                    /\ unwrap(task[h1].result).n \in 0..(TOTAL_SLOTS - 1)
                    /\ unwrap(task[h1].result) = unwrap(task[h2].result)

\* KEYSLOT has answered for two different keys with the same hash-tag body
C18_Witness ==
    /\ Answered(1) /\ Answered(2)
    /\ task[1].cmd.key # task[2].cmd.key
    /\ TagBodies(task[1].cmd.key) # {}
    /\ TagBodies(task[1].cmd.key) = TagBodies(task[2].cmd.key)
    /\ unwrap(task[1].result).msg = "integer"

\* C19: for every script, SCRIPT EXISTS of its digest returns 1 from a successful
\* SCRIPT LOAD of it until the next SCRIPT FLUSH, and 0 from a SCRIPT FLUSH until it is
\* loaded again.
C19_ExistsFollowsLoadAndFlush ==
    \A script \in KnownTextSet :
        LET r == script_exists(<<calculate_sha1(script)>>, script_cache).result
        IN /\ loaded[script] = "loaded" => r = Array(<<Integer(1)>>)
           /\ loaded[script] = "flushed" => r = Array(<<Integer(0)>>)

\* after a flush, one script has been loaded again and another has not
C19_Witness ==
    \E s1, s2 \in KnownTextSet : loaded[s1] = "loaded" /\ loaded[s2] = "flushed"

\* C20: when a source was loaded and not flushed since, EVALSHA of its digest returns
\* the same result and leaves the same storage as EVAL of the source, with the same
\* numkeys, keys and arguments, from the same storage and the same selected database.
C20_EvalshaIsEval ==
    \A source \in Scripts, rest \in EvalRest \ {<<>>}, db_index \in Databases :
        loaded[from_utf8_lossy(source)] = "loaded" =>
            evalsha(<<calculate_sha1(from_utf8_lossy(source))>> \o rest, db_index,
                    script_cache, storage)
                = eval(<<source>> \o rest, db_index, storage)

\* a loaded script that writes: EVALSHA of it changes the second database
C20_Witness ==
    /\ loaded[<<LUA_SET>>] = "loaded"
    /\ evalsha(<<calculate_sha1(<<LUA_SET>>), <<"1">>, <<"k">>, <<"w">>>>, 1,
               script_cache, storage).storage # storage
    /\ storage[1] # EmptyMap

\* C21: EVAL caches its script: after EVAL of a source has run, SCRIPT EXISTS of its
\* digest returns 1 and EVALSHA of its digest finds the script, until the next
\* SCRIPT FLUSH.
C21_EvalCachesScript ==
    \A script \in evaluated :
        /\ script_exists(<<calculate_sha1(script)>>, script_cache).result
               = Array(<<Integer(1)>>)
        /\ \A db_index \in Databases :
               evalsha(<<calculate_sha1(script), <<"0">>>>, db_index, script_cache, storage)
                   .result.msg # "NOSCRIPT No matching script. Use EVAL."

NOSCRIPT == Err("InvalidArgument", "NOSCRIPT No matching script. Use EVAL.")

WellFormed(rest) ==
    /\ rest # <<>>
    /\ is_some(parse_usize(from_utf8_lossy(rest[1])))
    /\ Len(rest) >= 1 + unwrap(parse_usize(from_utf8_lossy(rest[1])))

C23_CallAbortsPcallGoesOn ==
    \A rest \in KeyAndValue, db_index \in Databases :
        /\ \A p \in CallPrograms :
               LET ran == eval(<<<<p>>>> \o rest, db_index, storage)
               IN ran.result.kind = "Script" /\ ran.storage = storage
        /\ \A p \in PcallPrograms :
               LET ran == eval(<<<<p>>>> \o rest, db_index, storage)
               IN /\ ran.result = Null
                  /\ ran.storage = eval(<<<<LUA_SET>>>> \o rest, db_index, storage).storage
                  /\ ran.storage[db_index][from_utf8_lossy(rest[2])] = from_utf8_lossy(rest[3])

\* data is stored in both databases, and the script with the failing pcall would
\* change the value of a key that the script with the failing call leaves alone
C23_Witness ==
    /\ storage[0] # EmptyMap /\ storage[1] # EmptyMap
    /\ \E rest \in KeyAndValue :
           /\ contains_key(storage[1], from_utf8_lossy(rest[2]))
           /\ eval(<<<<LUA_PCALL_ARITY>>>> \o rest, 1, storage).storage # storage
           /\ eval(<<<<LUA_CALL_ARITY>>>> \o rest, 1, storage).storage = storage

\* C24: a script whose result is the boolean false is answered with Null, and true
\* with Integer 1; a script that returns redis.call('GET', k) for a key k that does not
\* exist is answered with Null.
C24_FalseIsNull ==
    \A rest \in HostRest, db_index \in Databases :
        /\ eval(<<<<LUA_RETURN_FALSE>>>> \o rest, db_index, storage).result = Null
        /\ eval(<<<<LUA_RETURN_TRUE>>>> \o rest, db_index, storage).result = Integer(1)
        /\ (Len(rest) >= 2 /\ ~contains_key(storage[db_index], from_utf8_lossy(rest[2])))
               => eval(<<<<LUA_GET>>>> \o rest, db_index, storage).result = Null

\* C25: for every key k, value v and selected database d, the script that sets KEYS[1]
\* to ARGV[1] and returns the GET of KEYS[1], run with k and v, returns BulkString v,
\* and afterwards k holds v in database d while every other database is unchanged.
C25_SetThenGet ==
    \A k \in HostKeys, v \in HostValues, db_index \in Databases :
        LET ran == eval(<<<<LUA_SET_GET>>, <<"1">>, k, v>>, db_index, storage)
        IN /\ ran.result = BulkString(v)
           /\ contains_key(ran.storage[db_index], k)
           /\ ran.storage[db_index][k] = v
           /\ \A other \in Databases \ {db_index} : ran.storage[other] = storage[other]

C27_PoisonedLockIsStorageError ==
    state.poisoned =>
        \A c \in Calls :
            ~is_some(c.cmd.early) =>
                /\ Outcome(c).result.kind = "Storage"
                /\ Outcome(c).lk = state

\* C28: for every port in 0..65535 and every optional cluster-port, CLUSTER MEET
\* neither aborts nor wraps around 16 bits: it returns OK or an InvalidArgument error,
\* and on OK the recorded cluster-bus port is the explicit cluster-port when given and
\* otherwise exactly port + 10000.
C28_MeetNeitherAbortsNorWraps ==
    \A c \in MeetCalls :
        (Len(c.args) >= 3 /\ is_some(parse_u16(c.args[3]))) =>
            LET done == Outcome(c)
                port == unwrap(parse_u16(c.args[3]))
            IN /\ done.result = Ok \/ done.result.kind = "InvalidArgument"
               /\ done.result = Ok =>
                      done.lk.data.nodes[c.cmd.node_id].cluster_port
                          = IF Len(c.args) > 3 THEN unwrap(parse_u16(c.args[4]))
                            ELSE port + CLUSTER_PORT_OFFSET

\* the handlers that hold the write guard and have changed some of their command's
\* slots but not yet all of them
MidMutation ==
    {w \in ConcIds : At(w, "apply") /\ 1 < task[w].i /\ task[w].i <= ObsTurns(task[w].cmd)}

\* C29: a CLUSTER INFO, NODES or SLOTS read that runs concurrently with a multi-slot
\* ADDSLOTS, DELSLOTS or FORGET sees the slot vector entirely before or entirely after
\* the mutation: while it reads, no mutation is under way, and every slot it has read
\* still has the value read, so that its reply is built from a vector that the state
\* held between two mutations.
C29_ReadsSeeWholeMutations ==
    \A r \in ConcIds :
        At(r, "scan") =>
            /\ \A w \in ConcIds : ~At(w, "check") /\ ~At(w, "apply")
            /\ \A k \in 1..Len(task[r].seen) : task[r].seen[k] = slot_assignments[k - 1]

\* a read has seen part of the vector, with slots assigned, while the other handler
\* waits for the write lock with a FORGET that will unassign more than one slot
C29_Witness ==
    \E r, w \in ConcIds :
        /\ At(r, "scan") /\ task[r].i >= 1 /\ task[r].i < TOTAL_SLOTS
        /\ At(w, "lock") /\ task[w].cmd.op = "FORGET"
        /\ Cardinality({s \in DOMAIN slot_assignments :
                            slot_assignments[s] = Some(task[w].cmd.node_id)}) > 1

\* C30: EVALSHA holds the lock of the script cache only for the lookup: while the
\* script it started runs, it holds no guard, so that SCRIPT LOAD, EXISTS and FLUSH of
\* other sessions do not wait for it; and the script that runs is the source that was
\* looked up, to the result and the storage that EVAL of that source gives, whether or
\* not SCRIPT FLUSH has emptied the cache in the meantime.
C30_LockOnlyForLookup ==
    \A h \in ShaIds :
        At(h, "run") =>
            /\ h \notin cache_guards
            /\ evalsha_run(task[h].seen, task[h].args, task[h].db_index, storage)
                   = eval(<<task[h].seen>> \o Tail(task[h].args), task[h].db_index, storage)
            /\ task[h].seen \in KnownTextSet
            /\ calculate_sha1(task[h].seen) = from_utf8_lossy(task[h].args[1])

\* the script that was looked up is about to run and to write, and the cache has been
\* flushed since the lookup
C30_Witness ==
    \E h \in ShaIds :
        /\ At(h, "run")
        /\ script_cache = EmptyMap
        /\ loaded[task[h].seen] = "flushed"
        /\ evalsha_run(task[h].seen, task[h].args, task[h].db_index, storage).storage
               # storage

\* C31: a script runs in isolation from other sessions: no storage operation of
\* another session takes effect between two of its host calls, so that the script that
\* sets a key and returns the GET of it returns its own value.
C31_ScriptReadsItsOwnWrite ==
    \A h \in IsoIds :
        /\ At(h, "done") => task[h].result = Some(BulkString(from_utf8_lossy(task[h].args[4])))
        /\ At(h, "second") =>
               get_from_db(storage, task[h].db_index, <<"k">>)
                   = Some(from_utf8_lossy(task[h].args[4]))

\* C32: a script that is aborted by an error after earlier host calls does not roll
\* them back: the SET and the DEL done before the abort remain in the storage, and EVAL
\* returns a Script error.
C32_AbortKeepsEarlierWrites ==
    \A rest \in KeyAndValue, db_index \in Databases :
        LET key == from_utf8_lossy(rest[2])
            set == eval(<<<<LUA_SET_THEN_PING>>>> \o rest, db_index, storage)
            del == eval(<<<<LUA_DEL_THEN_ERROR>>>> \o rest, db_index, storage)
        IN /\ set.result.kind = "Script"
           /\ set.storage = set_in_db(storage, db_index, key, from_utf8_lossy(rest[3]))
           /\ del.result.kind = "Script"
           /\ del.storage = [storage EXCEPT ![db_index] = remove(@, key)]
C32_Witness ==
    \E rest \in KeyAndValue, db_index \in Databases :
        /\ contains_key(storage[db_index], from_utf8_lossy(rest[2]))
        /\ eval(<<<<LUA_DEL_THEN_ERROR>>>> \o rest, db_index, storage).storage # storage
        /\ eval(<<<<LUA_SET_THEN_PING>>>> \o rest, db_index, storage).storage # storage
        /\ eval(<<<<LUA_SET_THEN_PING>>>> \o rest, db_index, storage).result.kind = "Script"

\* C33: in every reachable cluster state the two migration maps are in lockstep: a slot
\* has an entry in slot_states exactly when it has one in migration_targets, and the
\* recorded state is Migrating or Importing, never Normal.
C33_MigrationMapsInLockstep ==
    /\ DOMAIN slot_states = DOMAIN migration_targets
    /\ \A s \in DOMAIN slot_states : slot_states[s] \in {"Migrating", "Importing"}
    /\ DOMAIN slot_states \subseteq 0..(TOTAL_SLOTS - 1)
\* one slot is migrating and another importing, three mutations into the run
C33_Witness ==
    /\ \E s, u \in DOMAIN migration_targets :
           slot_states[s] = "Migrating" /\ slot_states[u] = "Importing"
    /\ mutations >= 3

\* C34: in a server process, where the local node is registered at start-up and the
\* handler of every connection has the local node id, the local node is in the node map
\* in every reachable state, and every assigned slot's owner is in the node map.
C34_ServerSlotOwnersAreNodes ==
    /\ contains_key(nodes, ServerNodeId)
    /\ \A s \in DOMAIN slot_assignments :
           is_some(slot_assignments[s]) => contains_key(nodes, unwrap(slot_assignments[s]))
\* a slot of the local node and a slot of another node, after a node was forgotten
C34_Witness ==
    /\ \E s, u \in DOMAIN slot_assignments :
           /\ slot_assignments[s] = Some(ServerNodeId)
           /\ is_some(slot_assignments[u]) /\ slot_assignments[u] # Some(ServerNodeId)
    /\ mutations = MaxEpoch

\* C35: SETSLOT s MIGRATING, SETSLOT s IMPORTING and SETSLOT s STABLE never change the
\* slot-ownership vector or the node map, and STABLE succeeds and bumps the epoch also
\* when s had no migration state.
C35_SetslotKeepsOwnership ==
    \A c \in SetslotCalls :
        /\ c.cmd.early = None /\ c.cmd.op \in {"MIGRATING", "IMPORTING", "STABLE"} =>
               /\ Outcome(c).lk.data.slot_assignments = slot_assignments
               /\ Outcome(c).lk.data.nodes = nodes
        /\ c.cmd.early = None /\ c.cmd.op = "STABLE" =>
               /\ Outcome(c).result = Ok
               /\ Outcome(c).lk.data.config_epoch = config_epoch + 1
               /\ ~contains_key(Outcome(c).lk.data.slot_states, c.cmd.slot)

\* C36: the read-only subcommands KEYSLOT, INFO, NODES, SLOTS, MYID and HELP leave the
\* node map, the slot vector, the migration state and the epoch unchanged, in every
\* state and for every argument list.
C36_ReadsChangeNothing ==
    \A c \in ReadCalls :
        /\ Outcome(c).lk.data.nodes = nodes
        /\ Outcome(c).lk.data.slot_assignments = slot_assignments
        /\ Outcome(c).lk.data.slot_states = slot_states
        /\ Outcome(c).lk.data.migration_targets = migration_targets
        /\ Outcome(c).lk.data.config_epoch = config_epoch
        /\ Outcome(c).lk.poisoned = state.poisoned
\* two nodes, an assigned slot and a migration state, and each of the six subcommands
\* answers
C36_Witness ==
    /\ Cardinality(DOMAIN nodes) > 1
    /\ \E s \in DOMAIN slot_assignments : is_some(slot_assignments[s])
    /\ DOMAIN slot_states # {}
    /\ config_epoch > 0
    /\ \A kw \in {KW_KEYSLOT, KW_INFO, KW_NODES, KW_SLOTS, KW_MYID, KW_HELP} :
           \E c \in ReadCalls : c.args[1] = kw /\ Outcome(c).result.kind = "Ok"

\* the entries of the CLUSTER SLOTS that has returned, and the slot vector it read
SlotsEntries == unwrap(task[1].result).s
WideAssignments == state.data.slot_assignments

\* C37: the entries of CLUSTER SLOTS are exactly the maximal contiguous runs of
\* same-owner assigned slots: ascending, pairwise disjoint, covering every assigned slot
\* once and no unassigned slot, and never two touching entries with the same node, a run
\* that ends at the last slot included.
C37_SlotsEntriesAreMaximalRuns ==
    At(1, "done") =>
        /\ \A i \in 1..Len(SlotsEntries) :
               /\ 0 <= SlotsEntries[i].start
               /\ SlotsEntries[i].start <= SlotsEntries[i].end
               /\ SlotsEntries[i].end <= WideSlots - 1
               /\ i < Len(SlotsEntries) => SlotsEntries[i].end < SlotsEntries[i + 1].start
               /\ (i < Len(SlotsEntries)
                   /\ SlotsEntries[i].end + 1 = SlotsEntries[i + 1].start) =>
                      SlotsEntries[i].node.id # SlotsEntries[i + 1].node.id
               /\ \A s \in SlotsEntries[i].start..SlotsEntries[i].end :
                      /\ is_some(WideAssignments[s])
                      /\ SlotsEntries[i].node.id = format_040x(unwrap(WideAssignments[s]))
        /\ \A s \in DOMAIN WideAssignments :
               is_some(WideAssignments[s]) =>
                   \E i \in 1..Len(SlotsEntries) :
                       s \in SlotsEntries[i].start..SlotsEntries[i].end
\* touching runs of two owners, a gap, and a run of the first owner that ends at the
\* last slot
C37_Witness ==
    /\ At(1, "done")
    /\ Len(SlotsEntries) = 3
    /\ SlotsEntries[2].start = SlotsEntries[1].end + 1
    /\ SlotsEntries[3].start > SlotsEntries[2].end + 1
    /\ SlotsEntries[3].end = WideSlots - 1
    /\ SlotsEntries[3].node.id = SlotsEntries[1].node.id

\* the lines of a CLUSTER NODES output whose slot ranges (the fields after the eighth)
\* hold slot s
LinesWithSlot(lines, s) ==
    {i \in 1..Len(lines) :
        \E f \in 9..Len(lines[i]) :
            \E a \in 0..s, b \in s..(TOTAL_SLOTS - 1) :
                lines[i][f] = format_range(Range(a, b, 0))}

\* C38: in every reachable cluster state every assigned slot appears in the slot ranges
\* of exactly one line of the CLUSTER NODES output, the line of the node that owns it,
\* also when the node map is empty or the owner is not in the node map.
C38_NodesShowsEveryAssignedSlot ==
    \A c \in NodesCalls :
        LET r == Outcome(c).result
        IN /\ r.msg = "bulk"
           /\ \A s \in DOMAIN slot_assignments :
                  is_some(slot_assignments[s]) =>
                      /\ Cardinality(LinesWithSlot(r.s, s)) = 1
                      /\ \A i \in LinesWithSlot(r.s, s) :
                             r.s[i][1] = format_040x(unwrap(slot_assignments[s]))

\* C39: all connections of one server observe one cluster state: once a mutation (MEET,
\* FORGET, ADDSLOTS, DELSLOTS, SETSLOT) issued on one connection has returned OK, every
\* CLUSTER INFO, NODES or SLOTS issued afterwards on any connection, connections accepted
\* later included, reflects it.
C39_ConnectionsShareOneState ==
    \A h \in ConcIds : (At(h, "open") /\ mutations > 0) =>
        \A c \in ObserverCalls :
            LET r == ConnOutcome(h, c).result
            IN /\ r.kind = "Ok"
               /\ ConnState(h).data.config_epoch = mutations
               /\ \A g \in ConcIds : At(g, "open") => ConnState(g) = ConnState(h)
               /\ c.cmd.op = "INFO" =>
                      InfoValue(r.s, "cluster_current_epoch") = format_dec(mutations)
               /\ c.cmd.op = "NODES" =>
                      \A i \in 1..Len(r.s) : r.s[i][7] = format_dec(mutations)
               /\ r = Outcome(c).result

\* the keys of the database of the iteration, and the keys the iteration has collected
ScanDatabase == DOMAIN storage[0]
all_keys == task[1].seen

====
